---- MODULE Spec2Model ----
(***************************************************************************)
(* A model of the mesh synchronisation engine: the wire protocol driver    *)
(* (src/src/wire-transport.ts) with the collaborators it calls (HAM, Get,  *)
(* Store, Dup).  Two wire instances, "A" and "B", each own a graph, a      *)
(* store, a queue of pending reply callbacks, listeners, pending           *)
(* references, a dup set, timers and an outbound message queue.  Time is   *)
(* a shared millisecond clock; a timer fires at its due time, before the   *)
(* clock moves past it.                                                    *)
(***************************************************************************)
EXTENDS Integers, Sequences, FiniteSets, TLC

VARIABLES
    peer,   \* peer[p]: the state owned by wire instance p (a record, see InitPeer)
    now,    \* Date.now(), in ms
    net,    \* frames a transport is about to hand to a wire: set of [to, msg]
    ops,    \* API calls and injected frames so far
    ticks   \* clock steps so far

vars == <<peer, now, net, ops, ticks>>

\* ------------------------------------------------------------------ bounds
\* calls and clock steps of each specification
MaxHamOps == 3
MaxHamTicks == 2
MaxEvictOps == 4
MaxEvictTicks == 1
MaxConvOps == 2
MaxConvTicks == 3
MaxMsgOps == 3
MaxMsgTicks == 2
MaxGetOps == 3
MaxGetTicks == 4
MaxUserOps == 2
MaxUserTicks == 2
MaxListenOps == 3
MaxListenTicks == 2
MaxSpoofOps == 3
MaxSpoofTicks == 3
MaxDropOps == 4
MaxDropTicks == 1
MaxHelloOps == 3
MaxHelloTicks == 1
MaxRateOps == 5
MaxRateTicks == 2
MaxSendOps == 4
MaxTableOps == 4
MaxClosestOps == 4
MaxRelayOps == 3
MaxOffOps == 4
MaxEchoOps == 4
MaxEchoTicks == 2
MaxDupOps == 4
MaxDupTicks == 4
MaxOffTicks == 2
MaxRelayTicks == 2
MaxSendTicks == 3
\* options.maxQueueLength of the wire whose queue order is observed
SendQueue == 2
\* the clock at the start
T0 == 1000
\* options.maxQueueLength of the wire whose outbound queue is made to overflow
SmallQueue == 1
\* a caller's opt.wait
ShortWait == 50

\* ------------------------------------------------------- program constants
DAY == 86400000
DefaultWait == 100
Pacing == 10
DefaultMaxQueueLength == 1000
DefaultMaxAge == 9000
\* the rate limiter
maxRequests == 1500
windowMs == 60000
DisconnectAt == 10
\* fingertable.ts
K_BUCKET_SIZE == 20
DefaultK == 6
CleanupEvery == windowMs \div 4
\* MAX_GRAPH_SIZE is 10 000 in the program; the model scales it to the number
\* of souls it can hold so that the overflow branch of HAM.mix is exercised.
MAX_GRAPH_SIZE == 2

Peers == {"A", "B"}

\* ------------------------------------------------------------------- data
EmptyFn == <<>>

Restrict(f, D) == [x \in (DOMAIN f) \cap D |-> f[x]]

Min(S) == CHOOSE x \in S : \A y \in S : x <= y
Max(S) == CHOOSE x \in S : \A y \in S : x >= y

\* Values are tagged so that TLC can compare any two of them:
\* t = "s" a string, "r" a relation {"#": v}, "z" null.
Str(x) == [t |-> "s", v |-> x]
Rel(x) == [t |-> "r", v |-> x]
Null == [t |-> "z", v |-> ""]

\* utils.rel.is(value): the soul a relation points to, or "" (false)
relIs(value) == IF value.t = "r" THEN value.v ELSE ""

\* Souls: plain ones, one user soul ~P (pub = "P") and one alias soul ~@a
IsUserSoul(soul) == soul \in {"~P", "~Q"}
PubOf(soul) == IF soul = "~P" THEN "P" ELSE IF soul = "~Q" THEN "Q" ELSE ""
IsAliasSoul(soul) == soul \in {"~@a"}

\* Object.keys order of the souls of a graph (insertion order in the
\* program; the model's payloads list their souls in this order)
SoulOrder == <<"k", "j", "i", "~P", "~Q", "~@a">>
SoulIndex(s) == CHOOSE i \in 1..Len(SoulOrder) : SoulOrder[i] = s

\* A node: _[">"] is st, the fields are val, _.s is s (state -> signature)
Node(st, val, s) == [st |-> st, val |-> val, s |-> s]

\* A signature names the key that made it and the state it signs
Sig(by, over) == [by |-> by, over |-> over]
\* SEA verification of a state signature under pub
Verify(sig, pub, state) == sig.by = pub /\ sig.over = state

\* ---------------------------------------------- string encoding of values
\* Character codes of the strings the model uses
Codes(x) ==
    CASE x = "alpha" -> <<97, 108, 112, 104, 97>>
      [] x = "beta" -> <<98, 101, 116, 97>>
      [] x = "P" -> <<80>>
      [] x = "Q" -> <<81>>
      [] x = "k" -> <<107>>
      [] x = "j" -> <<106>>
      [] x = "i" -> <<105>>
      [] x = "~P" -> <<126, 80>>
      [] OTHER -> <<>>

\* The string encoding HAM compares on a tie
Enc(value) ==
    CASE value.t = "s" -> <<34>> \o Codes(value.v) \o <<34>>
      [] value.t = "r" -> <<123, 34, 35, 34, 58, 34>> \o Codes(value.v) \o <<34, 125>>
      [] OTHER -> <<110, 117, 108, 108>>

RECURSIVE LexLess(_, _)
LexLess(a, b) ==
    IF b = <<>> THEN FALSE
    ELSE IF a = <<>> THEN TRUE
    ELSE IF Head(a) # Head(b) THEN Head(a) < Head(b)
    ELSE LexLess(Tail(a), Tail(b))

\* -------------------------------------------------------------------- HAM
\* The pairwise rule; curSt = -1 stands for "no current state"
\* HAM that keeps the value it has when the states are equal
HAMKeepsCurrent(inSt, curSt, inVal, curVal) ==
    IF inSt > curSt THEN "incoming"
    ELSE IF inSt < curSt THEN "historical"
    ELSE IF inVal = curVal THEN "state"
    ELSE "current"

HAM(inSt, curSt, inVal, curVal) ==
    IF inSt > curSt THEN "incoming"
    ELSE IF inSt < curSt THEN "historical"
    ELSE IF inVal = curVal THEN "state"
    ELSE IF LexLess(Enc(curVal), Enc(inVal)) THEN "incoming"
    ELSE "current"

CurSt(g, soul, f) ==
    IF soul \in DOMAIN g /\ f \in DOMAIN g[soul].st THEN g[soul].st[f] ELSE -1
CurVal(g, soul, f) ==
    IF soul \in DOMAIN g /\ f \in DOMAIN g[soul].val THEN g[soul].val[f] ELSE Null

\* The fields of an incoming node that pass validation of user-owned souls
Eligible(soul, node, secure) ==
    LET withVal == (DOMAIN node.st) \cap (DOMAIN node.val)
    IN  IF IsUserSoul(soul)
        THEN IF "pub" \in DOMAIN node.val /\ node.val["pub"] = Str(PubOf(soul))
             THEN {f \in withVal : /\ node.st[f] \in DOMAIN node.s
                                   /\ Verify(node.s[node.st[f]], PubOf(soul), node.st[f])}
             ELSE {}
        ELSE IF IsAliasSoul(soul)
        THEN {f \in withVal : relIs(node.val[f]) = f}
        ELSE {f \in withVal : ~secure \/ node.st[f] \in DOMAIN node.s}

\* Fields accepted now, and fields deferred, at clock t
NowFields(soul, node, g, secure, t) ==
    {f \in Eligible(soul, node, secure) :
        /\ node.st[f] <= t
        /\ HAM(node.st[f], CurSt(g, soul, f), node.val[f], CurVal(g, soul, f)) = "incoming"}

DeferFields(soul, node, secure, t) ==
    {f \in Eligible(soul, node, secure) : node.st[f] > t /\ node.st[f] <= t + DAY}

SubNode(node, F) == Node(Restrict(node.st, F), Restrict(node.val, F), node.s)

\* A deferred node of a user soul keeps its pub, which the retry validates
DeferNode(soul, node, F) ==
    Node(Restrict(node.st, F),
         Restrict(node.val, F \cup (IF IsUserSoul(soul) THEN {"pub"} ELSE {})),
         node.s)

MergeNode(g, soul, sub) ==
    IF soul \in DOMAIN g
    THEN Node(sub.st @@ g[soul].st, sub.val @@ g[soul].val, sub.s @@ g[soul].s)
    ELSE sub

MaxState(node) == IF DOMAIN node.st = {} THEN -1 ELSE Max({node.st[f] : f \in DOMAIN node.st})

\* I5: evict the souls whose maximum state is smallest until the graph fits
\* the trim that drops the souls written last
RECURSIVE EvictNewest(_)
EvictNewest(g) ==
    IF Cardinality(DOMAIN g) <= MAX_GRAPH_SIZE THEN g
    ELSE LET high == Max({MaxState(g[s]) : s \in DOMAIN g})
             out == SoulOrder[Min({SoulIndex(s) : s \in {x \in DOMAIN g : MaxState(g[x]) = high}})]
         IN  EvictNewest(Restrict(g, (DOMAIN g) \ {out}))

RECURSIVE Evict(_)
Evict(g) ==
    IF Cardinality(DOMAIN g) <= MAX_GRAPH_SIZE THEN g
    ELSE LET low == Min({MaxState(g[s]) : s \in DOMAIN g})
             out == SoulOrder[Min({SoulIndex(s) : s \in {x \in DOMAIN g : MaxState(g[x]) = low}})]
         IN  Evict(Restrict(g, (DOMAIN g) \ {out}))

\* listeners that ignore their field filter
ListenersAnyField(listen, soul, F) ==
    IF soul \in DOMAIN listen
    THEN {listen[soul][i].cb : i \in 1..Len(listen[soul])}
    ELSE {}

\* listen[soul] is a sequence of [f, cb]; f = "" is a soul-level listener
Listeners(listen, soul, F) ==
    IF soul \in DOMAIN listen /\ F # {}
    THEN {listen[soul][i].cb : i \in {j \in 1..Len(listen[soul]) :
                                       listen[soul][j].f = "" \/ listen[soul][j].f \in F}}
    ELSE {}

\* HAM.mix(change, graph, secure, listen) at clock t
HamMix(change, g, secure, listen, t) ==
    LET nowS == {s \in DOMAIN change : NowFields(s, change[s], g, secure, t) # {}}
        defS == {s \in DOMAIN change : DeferFields(s, change[s], secure, t) # {}}
        nowG == [s \in nowS |-> SubNode(change[s], NowFields(s, change[s], g, secure, t))]
        defG == [s \in defS |-> DeferNode(s, change[s], DeferFields(s, change[s], secure, t))]
        merged == [s \in (DOMAIN g) \cup nowS |->
                      IF s \in nowS THEN MergeNode(g, s, nowG[s]) ELSE g[s]]
        waits == UNION {{defG[s].st[f] - t : f \in DOMAIN defG[s].st} : s \in defS}
    IN  [now |-> nowG,
         defer |-> defG,
         wait |-> IF defS = {} THEN 0 ELSE Min(waits),
         listeners |-> UNION {Listeners(listen, s, DOMAIN nowG[s].st) : s \in nowS},
         graph |-> Evict(merged)]

\* ----------------------------------------------------------- Get and Store
\* A lex is [soul, f]; f = "" asks for the whole node.
Lex(soul, f) == [soul |-> soul, f |-> f]

\* Get(lex, graph, fast): the matching subgraph, or EmptyFn (undefined) when
\* the graph lacks the soul or the field; a whole-node query is answered
\* from the working set only with fast = true
Get(lex, g, fast) ==
    IF lex.soul \notin DOMAIN g THEN EmptyFn
    ELSE IF lex.f = ""
         THEN IF fast THEN (lex.soul :> g[lex.soul]) ELSE EmptyFn
         ELSE IF lex.f \in DOMAIN g[lex.soul].val
              THEN (lex.soul :> Node(Restrict(g[lex.soul].st, {lex.f}),
                                    Restrict(g[lex.soul].val, {lex.f}), EmptyFn))
              ELSE EmptyFn

\* Store.get(lex, cb): the node or the field assembled from disk
StoreGet(lex, store) ==
    IF lex.soul \notin DOMAIN store THEN EmptyFn
    ELSE IF lex.f = "" THEN (lex.soul :> store[lex.soul])
         ELSE IF lex.f \in DOMAIN store[lex.soul].val
              THEN (lex.soul :> Node(Restrict(store[lex.soul].st, {lex.f}),
                                    Restrict(store[lex.soul].val, {lex.f}), EmptyFn))
              ELSE EmptyFn

\* Store.put(graph, cb): every field and its state is written
StorePut(store, g) ==
    [s \in (DOMAIN store) \cup (DOMAIN g) |->
        IF s \in DOMAIN g
        THEN IF s \in DOMAIN store
             THEN Node(g[s].st @@ store[s].st, g[s].val @@ store[s].val, EmptyFn)
             ELSE Node(g[s].st, g[s].val, EmptyFn)
        ELSE store[s]]

\* --------------------------------------------------------------- messages
NoGet == Lex("", "")
\* A wire message {"#": id, "@": at, get, put, err, hello: {pub}}; "", NoGet
\* and EmptyFn are absent
Msg(id, at, get, put, err, hello) ==
    [id |-> id, at |-> at, get |-> get, put |-> put, err |-> err, hello |-> hello]
NoMsg == Msg("", "", NoGet, EmptyFn, "", "")

\* What a callback receives
DataMsg(put, err) == [kind |-> "data", put |-> put, err |-> err]
AckMsg(put, err) == [kind |-> "ack", put |-> put, err |-> err]
ErrMsg(err) == [kind |-> "err", put |-> EmptyFn, err |-> err]
OkMsg == [kind |-> "ok", put |-> EmptyFn, err |-> ""]
\* the "not found" reply: {soul: null}, or {soul: {field: null}}
NullMsg(lex) ==
    [kind |-> "null",
     put |-> IF lex.f = "" THEN EmptyFn
             ELSE (lex.soul :> Node(EmptyFn, (lex.f :> Null), EmptyFn)),
     err |-> ""]

\* A pending setTimeout: when it is due, what it runs (k, id, put), its delay
\* and its place in the order of creation
Timer(due, k, id, put, delay, n) ==
    [due |-> due, k |-> k, id |-> id, put |-> put, delay |-> delay, n |-> n]

\* ------------------------------------------------------------- peer state
InitPeer(p, secure, mode, maxQ, maxAge, store0) ==
    [id |-> p,
     secure |-> secure,         \* options.secure
     mode |-> mode,             \* "local": no transport; "queue": a client's message
                                \* queue; "server": a transport server's message queue
     conn |-> TRUE,             \* transport.isConnected()
     maxQ |-> maxQ,             \* options.maxQueueLength || 1000
     maxAge |-> maxAge,         \* options.maxAge
     graph |-> EmptyFn,
     store |-> store0,
     queue |-> EmptyFn,         \* id -> [cb, lex]
     listen |-> EmptyFn,        \* soul -> sequence of [f, cb]
     pend |-> {},               \* pendingReferences
     dup |-> EmptyFn,           \* id -> time of last touch
     timers |-> {},
     outq |-> <<>>,             \* the message queue's array
     processing |-> FALSE,
     ft |-> {},                 \* the finger table's peerMap keys
     buckets |-> EmptyFn,       \* the finger table's buckets: index -> sequence of peer ids
     calls |-> EmptyFn,         \* addPeer / removePeer calls waiting for XOR.bucketIndex
     ncall |-> 0,
     via |-> EmptyFn,           \* per peer of the table, the connection its send writes to
     closed |-> {},             \* the connections that have disconnected
     tasks |-> EmptyFn,         \* suspended put / handlePut calls, waiting in check
     rate |-> EmptyFn,          \* the rate limiter's clients: clientId ->
                                \* [requests, lastCleanup, throttleCount, touched]
     held |-> EmptyFn,          \* handleMessage calls asleep in the rate limiter's delay
     nid |-> 0,                 \* ids drawn so far
     ntimer |-> 0,              \* timers set so far
     ntask |-> 0,
     ev |-> <<>>,               \* what this wire's last step did
     \* history, kept for the properties only
     cblog |-> EmptyFn,         \* per callback, the kinds of message it was called with
     gets |-> EmptyFn,          \* per wire.get callback, the request: [id, due, miss]
     puts |-> EmptyFn,          \* per wire.put callback, the call: [data, differs]
     passed |-> EmptyFn,        \* per client, when its frames were let through
     seen |-> EmptyFn,          \* per client, when its last frame arrived
     enq |-> <<>>,              \* ids of the messages enqueue took, in order
     sent |-> <<>>,             \* ids of the messages handed to the send function, in order
     subm |-> {},               \* the writes handed to HAM.mix
     unsub |-> {},              \* [id, soul]: souls of inbound PUTs this wire did not follow
     acc |-> EmptyFn,           \* per field, the maximal accepted write
     evicted |-> {},            \* souls dropped by the size bound
     offed |-> {}]              \* [soul, cb]: taken off and not put on since

Emit(S, e) == [S EXCEPT !.ev = Append(@, e)]

\* setTimeout(f, delay) at clock t
SetTimer(S, delay, k, id, put, t) ==
    [S EXCEPT !.timers = @ \cup {Timer(t + delay, k, id, put, delay, S.ntimer + 1)},
              !.ntimer = @ + 1]
Without(f, x) == Restrict(f, (DOMAIN f) \ {x})

\* utils.text.random(9): a fresh id
FreshId(S) == S.id \o ToString(S.nid + 1)

\* dup.track(id): record (id, now) and schedule the coalesced sweep
dupTrack(S, id, t) ==
    LET S1 == [S EXCEPT !.dup = (id :> t) @@ @]
    IN  IF \E x \in S.timers : x.k = "sweep" THEN S1
        ELSE SetTimer(S1, S.maxAge, "sweep", "", EmptyFn, t)

\* dup.check(id): is the id present (the touch refreshes it)
dupCheck(S, id) == id \in DOMAIN S.dup

\* the sweep deletes the entries older than maxAge
\* a sweep that empties the store
dupSweepAll(S, t) == [S EXCEPT !.dup = EmptyFn]

dupSweep(S, t) ==
    [S EXCEPT !.dup = Restrict(@, {i \in DOMAIN @ : t - @[i] <= S.maxAge})]

\* ------------------------------------------------------------ XOR distance
\* sha256(id) of sea-utils, for the ids and souls of the model: one byte
\* each, all different
TableIds == [i \in 1..(K_BUCKET_SIZE + 2) |-> "n" \o ToString(i)]

Sha(id) ==
    IF \E i \in DOMAIN TableIds : TableIds[i] = id
    THEN <<128 + (CHOOSE i \in DOMAIN TableIds : TableIds[i] = id)>>
    ELSE CASE id = "A" -> <<5>>
           [] id = "B" -> <<10>>
           [] id = "Q" -> <<68>>
           [] id = "R" -> <<33>>
           [] id = "k" -> <<64>>
           [] id = "j" -> <<7>>
           [] id = "i" -> <<19>>
           [] id = "~P" -> <<96>>
           [] id = "~Q" -> <<49>>
           [] id = "~@a" -> <<14>>
           [] OTHER -> <<255>>

\* toHash(id)
toHash(id) == Sha(id)

\* a ^ b of two bytes
RECURSIVE XorByte(_, _)
XorByte(a, b) ==
    IF a = 0 /\ b = 0 THEN 0
    ELSE ((a + b) % 2) + 2 * XorByte(a \div 2, b \div 2)

\* xorBuffers(a, b)
xorBuffers(a, b) == [i \in 1..Min({Len(a), Len(b)}) |-> XorByte(a[i], b[i])]

\* distance(idA, idB)
distance(idA, idB) == xorBuffers(toHash(idA), toHash(idB))

\* compareDistance(distA, distB): -1, 0 or 1
RECURSIVE compareFrom(_, _, _)
compareFrom(distA, distB, i) ==
    IF i > Min({Len(distA), Len(distB)})
    THEN IF Len(distA) < Len(distB) THEN -1
         ELSE IF Len(distA) > Len(distB) THEN 1 ELSE 0
    ELSE IF distA[i] < distB[i] THEN -1
    ELSE IF distA[i] > distB[i] THEN 1
    ELSE compareFrom(distA, distB, i + 1)

compareDistance(distA, distB) == compareFrom(distA, distB, 1)

\* the leading zero bits of a byte
RECURSIVE byteZeros(_, _)
byteZeros(byte, mask) ==
    IF mask = 0 \/ (byte \div mask) % 2 # 0 THEN 0 ELSE 1 + byteZeros(byte, mask \div 2)

\* leadingZeros(dist)
RECURSIVE leadingZeros(_)
leadingZeros(dist) ==
    IF dist = <<>> THEN 0
    ELSE IF Head(dist) = 0 THEN 8 + leadingZeros(Tail(dist))
    ELSE byteZeros(Head(dist), 128)

\* bucketIndex(myPeerId, peerId)
bucketIndex(myPeerId, peerId) == leadingZeros(distance(myPeerId, peerId))

\* Array.prototype.sort with compareDistance on the distance to targetId:
\* stable, ascending
RECURSIVE sortByDistance(_, _)
sortByDistance(peerIds, targetId) ==
    IF peerIds = <<>> THEN <<>>
    ELSE LET rest == sortByDistance(Tail(peerIds), targetId)
             d == distance(Head(peerIds), targetId)
             before == SelectSeq(rest, LAMBDA x : compareDistance(distance(x, targetId), d) < 0)
             after == SelectSeq(rest, LAMBDA x : compareDistance(distance(x, targetId), d) >= 0)
         IN  before \o <<Head(peerIds)>> \o after

\* findKClosest(targetId, peerIds, k)
\* findKClosest that leaves the peers in the order it was given them
findKClosestUnsorted(targetId, peerIds, k) ==
    SubSeq(peerIds, 1, Min({k, Len(peerIds)}))

findKClosest(targetId, peerIds, k) ==
    SubSeq(sortByDistance(peerIds, targetId), 1, Min({k, Len(peerIds)}))

\* isCloser(peerA, peerB, targetId)
isCloser(peerA, peerB, targetId) ==
    compareDistance(distance(peerA, targetId), distance(peerB, targetId)) < 0

\* filterCloser(myPeerId, targetId, peerIds)
filterCloser(myPeerId, targetId, peerIds) ==
    SelectSeq(peerIds, LAMBDA x : isCloser(x, myPeerId, targetId))

\* ------------------------------------------------------------ finger table
bucketOf(S, idx) == IF idx \in DOMAIN S.buckets THEN S.buckets[idx] ELSE <<>>

\* the first occurrence of x leaves the sequence
RECURSIVE splice(_, _)
splice(q, x) ==
    IF q = <<>> THEN <<>>
    ELSE IF Head(q) = x THEN Tail(q) ELSE <<Head(q)>> \o splice(Tail(q), x)

\* removePeer after its await of XOR.bucketIndex
removeResume(S, peerId) ==
    LET idx == bucketIndex(S.id, peerId)
        left == splice(bucketOf(S, idx), peerId)
    IN  [S EXCEPT !.buckets = IF idx \notin DOMAIN @ THEN @
                              ELSE IF left = <<>> THEN Without(@, idx)
                              ELSE [@ EXCEPT ![idx] = left],
                  !.ft = @ \ {peerId}]

\* addPeer after its await of XOR.bucketIndex: a full bucket refuses the peer
insertResume(S, id) ==
    LET idx == bucketIndex(S.id, id)
    IN  IF Len(bucketOf(S, idx)) >= K_BUCKET_SIZE
        THEN [S |-> S, ok |-> FALSE]
        ELSE [S |-> [S EXCEPT !.buckets = (idx :> Append(bucketOf(S, idx), id)) @@ @,
                              !.ft = @ \cup {id}],
              ok |-> TRUE]

\* fingerTable.removePeer(peerId), run to its end
removePeer(S, peerId) == IF peerId \notin S.ft THEN S ELSE removeResume(S, peerId)

\* fingerTable.addPeer(peer), run to its end: not self; a peer already in
\* the table is removed first
addPeer(S, id) ==
    IF id = S.id THEN S
    ELSE insertResume(IF id \in S.ft THEN removeResume(S, id) ELSE S, id).S

\* addPeer(peer) up to its first await: self is refused; for a peer already
\* in the table removePeer starts and waits for XOR.bucketIndex, else addPeer
\* itself waits for it
addStart(S, id) ==
    IF id = S.id THEN Emit(S, [k |-> "added", id |-> id, ok |-> FALSE])
    ELSE [S EXCEPT !.ncall = @ + 1,
                   !.calls = ("c" \o ToString(S.ncall + 1) :>
                                 [op |-> "add", id |-> id,
                                  pc |-> IF id \in S.ft THEN "rm" ELSE "idx"]) @@ @]

\* removePeer(peerId) up to its await
removeStart(S, peerId) ==
    IF peerId \notin S.ft THEN Emit(S, [k |-> "removed", id |-> peerId, ok |-> FALSE])
    ELSE [S EXCEPT !.ncall = @ + 1,
                   !.calls = ("c" \o ToString(S.ncall + 1) :>
                                 [op |-> "remove", id |-> peerId, pc |-> "rm"]) @@ @]

\* an addPeer that pushes the peer whatever the bucket holds
resumeCallNoLimit(S, cid) ==
    LET c == S.calls[cid]
        idx == bucketIndex(S.id, c.id)
    IN  IF c.pc = "rm"
        THEN IF c.op = "add"
             THEN [removeResume(S, c.id) EXCEPT !.calls[cid].pc = "idx"]
             ELSE Emit([removeResume(S, c.id) EXCEPT !.calls = Without(@, cid)],
                       [k |-> "removed", id |-> c.id, ok |-> TRUE])
        ELSE Emit([S EXCEPT !.calls = Without(@, cid),
                            !.buckets = (idx :> Append(bucketOf(S, idx), c.id)) @@ @,
                            !.ft = @ \cup {c.id}],
                  [k |-> "added", id |-> c.id, ok |-> TRUE])

\* XOR.bucketIndex has resolved for call cid: the call goes on to its next
\* await, or to its end
resumeCall(S, cid) ==
    LET c == S.calls[cid]
    IN  IF c.pc = "rm"
        THEN IF c.op = "add"
             THEN [removeResume(S, c.id) EXCEPT !.calls[cid].pc = "idx"]
             ELSE Emit([removeResume(S, c.id) EXCEPT !.calls = Without(@, cid)],
                       [k |-> "removed", id |-> c.id, ok |-> TRUE])
        ELSE Emit([insertResume(S, c.id).S EXCEPT !.calls = Without(@, cid)],
                  [k |-> "added", id |-> c.id, ok |-> insertResume(S, c.id).ok])

\* the ids of peerMap as an array
RECURSIVE SeqOf(_)
SeqOf(set) ==
    IF set = {} THEN <<>>
    ELSE LET x == CHOOSE y \in set : TRUE IN <<x>> \o SeqOf(set \ {x})

\* fingerTable.findClosestPeers(targetId, k)
findClosestPeers(S, targetId, k) ==
    SelectSeq(findKClosest(targetId, SeqOf(S.ft), k), LAMBDA x : x \in S.ft)

\* ------------------------------------------------- outbound message queue
\* routedSend(data): to the finger table's peers closest to the message's
\* soul; else a server broadcasts, and a client sends to its connected
\* transport or returns {err}
\* the soul a message is about: that of its get, else the first of its put
targetOf(m, souls) ==
    IF m.get # NoGet /\ m.get.soul # "" THEN m.get.soul
    ELSE IF souls # <<>> THEN Head(souls) ELSE ""

\* routedSend with the closest peers found: these, else every transport
routeVia(S, targetId, closest) ==
    IF targetId # "" /\ closest # <<>>
    THEN [to |-> {closest[i] : i \in DOMAIN closest}, err |-> ""]
    ELSE IF S.mode = "server" THEN [to |-> {"broadcast"}, err |-> ""]
    ELSE IF S.conn THEN [to |-> {"transport"}, err |-> ""]
    ELSE [to |-> {}, err |-> "No transports connected"]

routeTo(S, targetId) == routeVia(S, targetId, findClosestPeers(S, targetId, DefaultK))

\* targetId of routedSend
routedTarget(m) == targetOf(m, SelectSeq(SoulOrder, LAMBDA x : x \in DOMAIN m.put))

routedSend(S, m) == routeTo(S, routedTarget(m))

\* sendFn(msg) inside process(): what routedSend returns is dropped
Transmit(S, m, r) ==
    [Emit(S, [k |-> "tx", msg |-> m, to |-> r.to, err |-> r.err])
        EXCEPT !.sent = Append(@, m.id)]

sendFn(S, m) == Transmit(S, m, routedSend(S, m))

\* process(): drain one message and wait for the pacing delay
process(S, t) ==
    IF S.processing \/ S.outq = <<>> THEN S
    ELSE SetTimer([sendFn(S, Head(S.outq)) EXCEPT !.processing = TRUE, !.outq = Tail(@)],
                  Pacing, "drain", "", EmptyFn, t)

\* a queue that takes every message
enqueueUnbounded(S, m, t) ==
    [S |-> process([Emit(S, [k |-> "send", msg |-> m])
                      EXCEPT !.outq = Append(@, m), !.enq = Append(@, m.id)], t),
     err |-> ""]

\* enqueue(data): {err} when the queue is full
enqueue(S, m, t) ==
    IF Len(S.outq) >= S.maxQ
    THEN [S |-> Emit(S, [k |-> "full", msg |-> m]), err |-> "Message queue exceeded maximum length"]
    ELSE [S |-> process([Emit(S, [k |-> "send", msg |-> m])
                           EXCEPT !.outq = Append(@, m), !.enq = Append(@, m.id)], t),
          err |-> ""]

\* sendFunction: the queue's enqueue, or a no-op without a transport
sendFunction(S, m, t) ==
    IF S.mode = "local" THEN [S |-> S, err |-> ""] ELSE enqueue(S, m, t)

\* a loop that takes the newest message first
drainNewest(S, t) ==
    IF S.outq = <<>> THEN [S EXCEPT !.processing = FALSE]
    ELSE SetTimer([sendFn(S, S.outq[Len(S.outq)]) EXCEPT !.outq = SubSeq(@, 1, Len(@) - 1)],
                  Pacing, "drain", "", EmptyFn, t)

\* the pacing delay is over: the while loop of process() goes round
drain(S, t) ==
    IF S.outq = <<>> THEN [S EXCEPT !.processing = FALSE]
    ELSE SetTimer([sendFn(S, Head(S.outq)) EXCEPT !.outq = Tail(@)],
                  Pacing, "drain", "", EmptyFn, t)

\* ----------------------------------------------------------- wire handlers
\* The callbacks handed to getWithCallback: a caller's cb (k = "user", h its
\* handle) or the promise check() awaits (k = "check", h the suspended call).
\* n tells the promises of one check() apart: a promise settles once.
Cb(k, h, n) == [k |-> k, h |-> h, n |-> n]

Log(S, h) == IF h \in DOMAIN S.cblog THEN S.cblog[h] ELSE <<>>
Kinds(S, h) == {Log(S, h)[i] : i \in 1..Len(Log(S, h))}

\* Ham.mix on this wire's graph; the history of accepted writes goes along
AccMerge(acc, soul, sub) ==
    IF soul \in DOMAIN acc
    THEN LET F == {f \in DOMAIN sub.st :
                      f \notin DOMAIN acc[soul].st \/ sub.st[f] >= acc[soul].st[f]}
         IN  Node(Restrict(sub.st, F) @@ acc[soul].st,
                  Restrict(sub.val, F) @@ acc[soul].val, EmptyFn)
    ELSE Node(sub.st, sub.val, EmptyFn)

\* what an observer notes of a write handed to HAM.mix
Submitted(S, change, t, via) ==
    UNION {{[soul |-> s, f |-> f, st |-> change[s].st[f], val |-> change[s].val[f],
             at |-> t, via |-> via,
             signed |-> /\ change[s].st[f] \in DOMAIN change[s].s
                        /\ Verify(change[s].s[change[s].st[f]], PubOf(s), change[s].st[f]),
             pubok |-> /\ "pub" \in DOMAIN change[s].val
                       /\ change[s].val["pub"] = Str(PubOf(s))]
            : f \in (DOMAIN change[s].st) \cap (DOMAIN change[s].val)} : s \in DOMAIN change}

\* a merge into a copy: the wire's own graph stays as it was
MixCopy(S, change, t, via) ==
    LET up == HamMix(change, S.graph, S.secure, S.listen, t)
    IN  [S |-> [Emit(S, [k |-> "mix", via |-> via, now |-> up.now, defer |-> up.defer]) EXCEPT
                  !.subm = IF via = "retry" THEN @ ELSE @ \cup Submitted(S, change, t, via),
                  !.acc = [s \in (DOMAIN @) \cup (DOMAIN up.now) |->
                              IF s \in DOMAIN up.now THEN AccMerge(@, s, up.now[s]) ELSE @[s]]],
         up |-> [now |-> up.now, defer |-> up.defer, wait |-> up.wait,
                 listeners |-> up.listeners]]

\* Ham.mix has returned up: the graph is the merged one
Mixed(S, change, t, via, up) ==
    [S |-> [Emit(S, [k |-> "mix", via |-> via, now |-> up.now, defer |-> up.defer]) EXCEPT
              !.graph = up.graph,
              !.subm = IF via = "retry" THEN @ ELSE @ \cup Submitted(S, change, t, via),
              !.acc = [s \in (DOMAIN @) \cup (DOMAIN up.now) |->
                          IF s \in DOMAIN up.now THEN AccMerge(@, s, up.now[s]) ELSE @[s]],
              !.evicted = @ \cup (((DOMAIN S.graph) \cup (DOMAIN up.now)) \ (DOMAIN up.graph))],
     up |-> [now |-> up.now, defer |-> up.defer, wait |-> up.wait,
             listeners |-> up.listeners]]

Mix(S, change, t, via) ==
    Mixed(S, change, t, via, HamMix(change, S.graph, S.secure, S.listen, t))

hasSoul(S, soul) == soul \in DOMAIN S.graph \/ soul \in DOMAIN S.store

\* the souls a graph's relation fields point to
RelTargets(g) ==
    UNION {{relIs(g[s].val[f]) : f \in DOMAIN g[s].val} : s \in DOMAIN g} \ {""}

RECURSIVE Call(_, _, _, _), getWithCallback(_, _, _, _, _, _), handleResponse(_, _, _, _, _, _),
          Responded(_, _, _, _, _), Tracked(_, _, _, _, _, _, _), Found(_, _, _, _, _, _, _),
          FinishPutSent(_, _, _), FinishPutTold(_, _, _),
          CheckLoop(_, _, _), CheckResume(_, _, _, _), Finish(_, _, _), AckPart(_, _, _)

\* cb(msg)
Call(S, cb, msg, t) ==
    IF cb.k = "user"
    THEN [Emit(S, [k |-> "cb", h |-> cb.h, msg |-> msg])
            EXCEPT !.cblog = (cb.h :> Append(Log(S, cb.h), msg.kind)) @@ @]
    ELSE IF cb.h \in DOMAIN S.tasks /\ Len(S.tasks[cb.h].souls) = cb.n
    THEN CheckResume(S, cb.h, msg, t)
    ELSE S

\* handleResponse of getWithCallback: send the request, then answer
\* handleResponse once send has returned r: the error, else the data found
Responded(r, id, cb, put, t) ==
    IF r.err # "" \/ put # EmptyFn
    THEN Call(IF r.err # "" THEN [r.S EXCEPT !.queue = Without(@, id)] ELSE r.S,
              cb,
              IF r.err # "" THEN ErrMsg(r.err) ELSE DataMsg(put, ""),
              t)
    ELSE r.S

handleResponse(S, id, lex, cb, put, t) ==
    Responded(sendFunction(S, Msg(id, "", lex, EmptyFn, "", ""), t), id, cb, put, t)

\* getWithCallback with what graph or store hold: found data is answered at
\* once, else cb waits in queue[id] with its timeout
Found(S1, id, lex, cb, put, wait, t) ==
    handleResponse(IF put # EmptyFn THEN S1
                   ELSE SetTimer([S1 EXCEPT !.queue = (id :> [cb |-> cb, lex |-> lex]) @@ @],
                                 wait, "get", id, EmptyFn, t),
                   id, lex, cb, put, t)

\* getWithCallback once the request id is tracked: the graph's answer, else
\* the store's
Tracked(S1, id, lex, cb, ack, wait, t) ==
    Found(S1, id, lex, cb, IF ack # EmptyFn THEN ack ELSE StoreGet(lex, S1.store), wait, t)

getWithCallback(S, lex, cb, fast, wait, t) ==
    Tracked(dupTrack([S EXCEPT !.nid = @ + 1], FreshId(S), t), FreshId(S), lex, cb,
            Get(lex, S.graph, fast), wait, t)

\* a timeout that removes the entry and tells nobody
getTimeoutSilent(S, id, t) == [S EXCEPT !.queue = Without(@, id)]

\* the setTimeout of getWithCallback fires
getTimeout(S, id, t) ==
    IF id \in DOMAIN S.queue
    THEN Call([S EXCEPT !.queue = Without(@, id)], S.queue[id].cb, NullMsg(S.queue[id].lex), t)
    ELSE S

\* check(data, send, cb): one soul after the other, each through a GET of pub
CheckLoop(S, tid, t) ==
    IF S.tasks[tid].souls = <<>> THEN Finish(S, tid, t)
    ELSE getWithCallback(S, Lex(Head(S.tasks[tid].souls), "pub"), Cb("check", tid, Len(S.tasks[tid].souls)),
                         FALSE, DefaultWait, t)

\* check() returned false: put reports to cb, handleMessage goes on to the ACK
CheckFail(S, tid, err, t) ==
    LET task == S.tasks[tid]
        S1 == [S EXCEPT !.tasks = Without(@, tid)]
    IN  IF task.src = "put"
        THEN IF task.h # "" THEN Call(S1, Cb("user", task.h, 0), ErrMsg(err), t) ELSE S1
        ELSE AckPart(S1, task.ack, t)

CheckResume(S, tid, msg, t) ==
    LET task == S.tasks[tid]
        soul == Head(task.souls)
        node == task.up.now[soul]
    IN  IF msg.err # "" THEN CheckFail(S, tid, msg.err, t)
        ELSE IF \/ soul \notin DOMAIN msg.put
                \/ "pub" \notin DOMAIN node.val
                \/ /\ "pub" \in DOMAIN msg.put[soul].val
                   /\ msg.put[soul].val["pub"] = node.val["pub"]
        THEN CheckLoop([S EXCEPT !.tasks[tid].souls = Tail(@)], tid, t)
        ELSE CheckFail(S, tid, "public key does not match", t)

\* a put that runs the listeners before it hands the data to the store
FinishPutEarly(S, tid, t) ==
    LET task == S.tasks[tid]
        S0 == Emit(S, [k |-> "fire", cbs |-> task.up.listeners, now |-> task.up.now])
        S1 == [S0 EXCEPT !.tasks = Without(@, tid),
                         !.pend = @ \cup RelTargets(task.up.now),
                         !.store = StorePut(@, task.up.now),
                         !.nid = @ + 1]
        id == FreshId(S)
        r == sendFunction(dupTrack(Emit(S1, [k |-> "store", put |-> task.up.now, src |-> ""]), id, t),
                          Msg(id, "", NoGet, task.data, "", ""), t)
    IN  IF task.h # "" THEN Call(r.S, Cb("user", task.h, 0), OkMsg, t) ELSE r.S

\* the rest of put / handlePut once check() returned true
FinishPut(S, tid, t) ==
    LET task == S.tasks[tid]
        S1 == [S EXCEPT !.tasks = Without(@, tid),
                        !.pend = @ \cup RelTargets(task.up.now),
                        !.store = StorePut(@, task.up.now),
                        !.nid = @ + 1]
        id == FreshId(S)
    IN  FinishPutSent(
            sendFunction(dupTrack(Emit(S1, [k |-> "store", put |-> task.up.now, src |-> ""]), id, t),
                         Msg(id, "", NoGet, task.data, "", ""), t),
            task, t)

\* store.put's callback of put, send having returned r: cb(err) if there is
\* one, then cb(null) and the listeners
FinishPutSent(r, task, t) ==
    FinishPutTold(IF r.err # "" /\ task.h # ""
                  THEN Call(r.S, Cb("user", task.h, 0), ErrMsg(r.err), t) ELSE r.S,
                  task, t)

FinishPutTold(S2, task, t) ==
    Emit(IF task.h # "" THEN Call(S2, Cb("user", task.h, 0), OkMsg, t) ELSE S2,
         [k |-> "fire", cbs |-> task.up.listeners, now |-> task.up.now])

\* a handlePut that persists the message's put rather than update.now
FinishHandlePutRaw(S, tid, t) ==
    LET task == S.tasks[tid]
        S0 == [S EXCEPT !.tasks = Without(@, tid),
                        !.store = StorePut(@, task.data),
                        !.nid = @ + 1]
        S1 == IF task.up.defer # EmptyFn
              THEN SetTimer(S0, task.up.wait, "defer", task.msgId, task.up.defer, t)
              ELSE S0
        id == FreshId(S)
        r == sendFunction(dupTrack(Emit(S1, [k |-> "store", put |-> task.data, src |-> task.msgId]), id, t),
                          Msg(id, task.msgId, NoGet, EmptyFn, "", ""), t)
    IN  AckPart(Emit(r.S, [k |-> "fire", cbs |-> task.up.listeners, now |-> task.up.now]),
                task.ack, t)

FinishHandlePut(S, tid, t) ==
    LET task == S.tasks[tid]
        S0 == [S EXCEPT !.tasks = Without(@, tid),
                        !.store = StorePut(@, task.up.now),
                        !.nid = @ + 1]
        S1 == IF task.up.defer # EmptyFn
              THEN SetTimer(S0, task.up.wait, "defer", task.msgId, task.up.defer, t)
              ELSE S0
        id == FreshId(S)
    IN  AckPart(Emit(sendFunction(dupTrack(Emit(S1, [k |-> "store", put |-> task.up.now,
                                                     src |-> task.msgId]), id, t),
                                  Msg(id, task.msgId, NoGet, EmptyFn, "", ""), t).S,
                     [k |-> "fire", cbs |-> task.up.listeners, now |-> task.up.now]),
                task.ack, t)

Finish(S, tid, t) ==
    IF S.tasks[tid].src = "put" THEN FinishPut(S, tid, t) ELSE FinishHandlePut(S, tid, t)

\* handleMessage's ACK part: deliver the payload to the pending callback.
\* "#" and "@" are deleted from msg before the entry is removed, so the
\* removal addresses queue[undefined].
AckPart(S, msg, t) ==
    IF msg.at # "" /\ msg.at \in DOMAIN S.queue
    THEN LET stripped == [msg EXCEPT !.id = "undefined", !.at = "undefined"]
         IN  Call([Emit(S, [k |-> "ack", id |-> msg.at]) EXCEPT !.queue = Without(@, stripped.at)],
                  S.queue[msg.at].cb, AckMsg(msg.put, msg.err), t)
    ELSE S

NewTask(S, src, up, data, msgId, h, ack) ==
    [src |-> src,
     souls |-> SelectSeq(SoulOrder, LAMBDA x : x \in DOMAIN up.now),
     up |-> up, data |-> data, msgId |-> msgId, h |-> h, ack |-> ack]

TaskId(S) == "t" \o ToString(S.ntask + 1)

\* a handlePut that forgets the deferred fields when it accepts nothing now
handlePutNoDefer(S, put, msgId, ack, t) ==
    LET m == Mix(S, put, t, IF ack = NoMsg THEN "retry" ELSE "in")
    IN  IF m.up.now = EmptyFn
        THEN AckPart(m.S, ack, t)
        ELSE CheckLoop([m.S EXCEPT
                          !.ntask = @ + 1,
                          !.tasks = (TaskId(S) :> NewTask(S, "handlePut", m.up, put, msgId, "", ack)) @@ @],
                       TaskId(S), t)

\* handlePut(msg, send); ack is the message whose ACK part follows the await
\* handlePut after ham.mix returned m
handleMixed(S, m, put, msgId, ack, t) ==
    IF m.up.now = EmptyFn
    THEN AckPart(IF m.up.defer # EmptyFn
                 THEN SetTimer(m.S, m.up.wait, "defer", msgId, m.up.defer, t)
                 ELSE m.S, ack, t)
    ELSE CheckLoop([m.S EXCEPT
                      !.ntask = @ + 1,
                      !.tasks = (TaskId(S) :> NewTask(S, "handlePut", m.up, put, msgId, "", ack)) @@ @],
                   TaskId(S), t)

handlePut(S, put, msgId, ack, t) ==
    handleMixed(S, Mix(S, put, t, IF ack = NoMsg THEN "retry" ELSE "in"), put, msgId, ack, t)

\* server.onConnection(id): the server's HELLO goes to the new connection
onConnection(S, id) ==
    Emit(S, [k |-> "hello", msg |-> Msg("", "", NoGet, EmptyFn, "", S.id)])

\* server.onDisconnection(id)
onDisconnection(S, id) == [removePeer(S, id) EXCEPT !.closed = @ \cup {id}]

\* handleGet(msg, send): answer from the graph, else from the store
\* handleGet whose reply goes out with an id dup does not know
handleGetUntracked(S, msg, t) ==
    LET ack == Get(msg.get, S.graph, FALSE)
        disk == StoreGet(msg.get, S.store)
    IN  sendFunction([S EXCEPT !.nid = @ + 1],
                     Msg(FreshId(S), msg.id, NoGet, IF ack # EmptyFn THEN ack ELSE disk, "", ""), t).S

handleGet(S, msg, t) ==
    LET ack == Get(msg.get, S.graph, FALSE)
        disk == StoreGet(msg.get, S.store)
        id == FreshId(S)
    IN  sendFunction(dupTrack([S EXCEPT !.nid = @ + 1], id, t),
                     Msg(id, msg.id, NoGet, IF ack # EmptyFn THEN ack ELSE disk, "", ""), t).S

\* first pass of the PUT filter: relations of the souls this wire follows
RECURSIVE ExtractRefs(_, _, _)
ExtractRefs(S, put, i) ==
    IF i > Len(SoulOrder) THEN S
    ELSE LET soul == SoulOrder[i]
         IN  IF soul \in DOMAIN put
                /\ (hasSoul(S, soul) \/ soul \in S.pend \/ soul \in DOMAIN S.listen)
             THEN ExtractRefs([S EXCEPT !.pend = @ \cup RelTargets(Restrict(put, {soul}))], put, i + 1)
             ELSE ExtractRefs(S, put, i + 1)

\* a filter that lets every soul pass
FilteredAll(S, put) == put

\* second pass: the subscription filter
Filtered(S, put) ==
    Restrict(put, {soul \in DOMAIN put :
        hasSoul(S, soul) \/ soul \in S.pend \/ soul \in DOMAIN S.listen})

\* a handleMessage that does not consult the recent-seen set
\* handleMessage, the message being new, part after part: the filtered put
\* is merged, or the message is acknowledged at once
putPart(S3, msg, filteredPut, t) ==
    IF filteredPut # EmptyFn
    THEN handlePut([S3 EXCEPT !.pend = @ \ (DOMAIN filteredPut)], filteredPut, msg.id, msg, t)
    ELSE AckPart([S3 EXCEPT !.pend = @ \ (DOMAIN filteredPut)], msg, t)

filterPart(S3, msg, t) == putPart(S3, msg, Filtered(S3, msg.put), t)

getPart(S1, msg, t) ==
    filterPart(ExtractRefs(IF msg.get # NoGet THEN handleGet(S1, msg, t) ELSE S1, msg.put, 1),
               msg, t)

helloPart(S0, msg, t) ==
    getPart(IF msg.hello # "" THEN addPeer(S0, msg.hello) ELSE S0, msg, t)

handleMessageNoDup(S, msg, t) ==
    IF msg.id = "" THEN Emit(S, [k |-> "drop", id |-> msg.id])
    ELSE helloPart(dupTrack(S, msg.id, t), msg, t)

\* handleMessage(data, clientId)
handleMessage(S, msg, t) ==
    IF msg.id = "" THEN Emit(S, [k |-> "drop", id |-> msg.id])
    ELSE IF dupCheck(S, msg.id)
    THEN Emit([S EXCEPT !.dup[msg.id] = t], [k |-> "drop", id |-> msg.id])
    ELSE helloPart(dupTrack(S, msg.id, t), msg, t)

\* ------------------------------------------------------------ rate limiter
\* requests is kept as a bag: time -> number of requests let through then
RECURSIVE BagCount(_, _)
BagCount(b, D) ==
    IF D = {} THEN 0
    ELSE LET x == CHOOSE y \in D : TRUE IN b[x] + BagCount(b, D \ {x})

BagAdd(b, x) == IF x \in DOMAIN b THEN [b EXCEPT ![x] = @ + 1] ELSE (x :> 1) @@ b

\* isTestEnv: options.wss or options.transportServer is set
isTestEnv(S) == S.mode = "server"

\* The setInterval of createRateLimiter, applied when the client is next
\* looked at: outside the test environment, the last round of the interval
\* (every windowMs / 4 since the wire was made at clock 0) that came after
\* the counter last rose resets it if lastCleanup is more than ten windows
\* back.  Its filter of requests is the one getDelay applies itself.
Cleaned(S, client, t) ==
    LET round == t - (t % CleanupEvery)
    IN  IF /\ ~isTestEnv(S)
           /\ round > 0
           /\ round > client.touched
           /\ round - client.lastCleanup > windowMs * 10
        THEN [client EXCEPT !.throttleCount = 0]
        ELSE client

\* clients.get(clientId), the interval's work done
Client(S, clientId, t) ==
    IF clientId \in DOMAIN S.rate THEN Cleaned(S, S.rate[clientId], t)
    ELSE [requests |-> EmptyFn, lastCleanup |-> t, throttleCount |-> 0, touched |-> 0]

\* rateLimiter.getDelay(clientId)
getDelay(S, clientId, t) ==
    LET client == Client(S, clientId, t)
        kept == Restrict(client.requests, {x \in DOMAIN client.requests : t - x < windowMs})
    IN  IF BagCount(kept, DOMAIN kept) >= maxRequests
        THEN [S |-> [S EXCEPT !.rate = (clientId :> [client EXCEPT !.requests = kept,
                                                                   !.throttleCount = @ + 1,
                                                                   !.touched = t]) @@ @],
              delay |-> Max({0, windowMs - (t - Min(DOMAIN kept))})]
        ELSE [S |-> [S EXCEPT !.rate = (clientId :> [client EXCEPT !.requests = BagAdd(kept, t)])
                                          @@ @],
              delay |-> 0]

\* rateLimiter.shouldDisconnect(clientId)
shouldDisconnect(S, clientId) ==
    clientId \in DOMAIN S.rate /\ S.rate[clientId].throttleCount >= DisconnectAt

\* the frame is past the rate limiter: JSON.parse and the rest of handleMessage
pass(S, msg, clientId, t) ==
    handleMessage([S EXCEPT !.passed =
                      (clientId :> BagAdd(IF clientId \in DOMAIN @ THEN @[clientId] ELSE EmptyFn, t))
                          @@ @,
                            \* the sender of the peer a HELLO adds is bound to connId
                            !.via = IF /\ msg.hello # "" /\ msg.hello # S.id
                                       /\ msg.id # "" /\ ~dupCheck(S, msg.id)
                                    THEN (msg.hello :> clientId) @@ @ ELSE @],
                  msg, t)

\* handleMessage(data, clientId) from its start: the rate limiter, then the
\* message; a frame held back sleeps for the delay
\* onMessage after getDelay returned r; key names the held message
throttled(r, key, msg, clientId, t) ==
    IF r.delay > 0
    THEN IF shouldDisconnect(r.S, clientId)
         THEN Emit(r.S, [k |-> "limit", client |-> clientId])
         ELSE SetTimer([Emit(r.S, [k |-> "hold", client |-> clientId, delay |-> r.delay])
                          EXCEPT !.held = (key :> [msg |-> msg, client |-> clientId]) @@ @],
                       r.delay, "held", key, EmptyFn, t)
    ELSE pass(r.S, msg, clientId, t)

receive(S, msg, clientId, t) ==
    throttled(getDelay([S EXCEPT !.seen = (clientId :> t) @@ @], clientId, t),
              "h" \o ToString(S.ntimer + 1), msg, clientId, t)

\* the delay is over
wake(S, key, t) ==
    pass([S EXCEPT !.held = Without(@, key)], S.held[key].msg, S.held[key].client, t)

\* ------------------------------------------------------------- public API
\* get(lex, cb, _opt); h names cb
wireGet(S, lex, h, fast, wait, t) ==
    getWithCallback([S EXCEPT !.pend = @ \cup {lex.soul}], lex, Cb("user", h, 0), fast, wait, t)

\* a put that goes on although HAM accepted nothing
wirePutNoReturn(S, data, h, t) ==
    LET m == Mix(S, data, t, "put")
    IN  CheckLoop([m.S EXCEPT
                     !.ntask = @ + 1,
                     !.tasks = (TaskId(S) :> NewTask(S, "put", m.up, data, "", h, NoMsg)) @@ @],
                  TaskId(S), t)

\* put(data, cb); h names cb
\* put after ham.mix returned m
putMixed(S, m, data, h, t) ==
    IF m.up.now = EmptyFn
    THEN IF h # "" THEN Call(m.S, Cb("user", h, 0), OkMsg, t) ELSE m.S
    ELSE CheckLoop([m.S EXCEPT
                      !.ntask = @ + 1,
                      !.tasks = (TaskId(S) :> NewTask(S, "put", m.up, data, "", h, NoMsg)) @@ @],
                   TaskId(S), t)

wirePut(S, data, h, t) == putMixed(S, Mix(S, data, t, "put"), data, h, t)

\* on(lex, cb, _get, _opt)
wireOn(S, lex, cb, get, t) ==
    LET S1 == [S EXCEPT !.listen =
                  (lex.soul :> Append(IF lex.soul \in DOMAIN @ THEN @[lex.soul] ELSE <<>>,
                                      [f |-> lex.f, cb |-> cb])) @@ @]
    IN  IF get THEN getWithCallback(S1, lex, Cb("user", cb, 0), FALSE, DefaultWait, t) ELSE S1

\* off(lex, cb); cb = "" clears the soul's listeners
wireOff(S, lex, cb) ==
    IF lex.soul \notin DOMAIN S.listen THEN S
    ELSE IF cb = "" THEN [S EXCEPT !.listen = Without(@, lex.soul)]
    ELSE LET l == S.listen[lex.soul]
             hits == {i \in 1..Len(l) : l[i].cb = cb}
         IN  IF hits = {} THEN S
             ELSE [S EXCEPT !.listen[lex.soul] =
                      SubSeq(l, 1, Min(hits) - 1) \o SubSeq(l, Min(hits) + 1, Len(l))]

\* transport.onOpen: HELLO goes out on the transport, the queue is flushed
wireOpen(S, t) ==
    process(Emit([S EXCEPT !.conn = TRUE],
                 [k |-> "hello", msg |-> Msg("", "", NoGet, EmptyFn, "", S.id)]), t)

\* ------------------------------------------------------------------ timers
fireTimer(S, x, t) ==
    CASE x.k = "get" -> getTimeout(S, x.id, t)
      [] x.k = "defer" -> handlePut(S, x.put, x.id, NoMsg, t)
      [] x.k = "drain" -> drain(S, t)
      [] x.k = "sweep" -> dupSweep(S, t)

\* ----------------------------------------------------------------- actions
\* Every action takes the bound on the calls of the specification it is used in.
Clear(S) == [S EXCEPT !.ev = <<>>]

Step(p, S) == peer' = [peer EXCEPT ![p] = S]

Handle(prefix) == prefix \o ToString(ops + 1)

\* an observer's note of a wire.get: the request id, when its timeout is due,
\* and whether neither the graph nor the store had the data
NoteGet(S, T, h, lex, fast, wait) ==
    [T EXCEPT !.gets = (h :> [id |-> FreshId(S), due |-> now + wait,
                              miss |-> /\ Get(lex, S.graph, fast) = EmptyFn
                                       /\ StoreGet(lex, S.store) = EmptyFn]) @@ @]

\* an observer's note of an inbound PUT: which of its souls the wire followed
\* on arrival (in graph, listen or pendingReferences), and which it follows
\* by the filter's own test
NoteRecv(S, msg) ==
    [Emit(S, [k |-> "recv", id |-> msg.id]) EXCEPT !.unsub =
        IF dupCheck(S, msg.id) THEN @
        ELSE {x \in @ : x.id # msg.id} \cup
             {[id |-> msg.id, soul |-> soul,
               seen |-> hasSoul(S, soul) \/ soul \in ExtractRefs(S, msg.put, 1).pend]
                : soul \in {x \in DOMAIN msg.put :
                    x \notin DOMAIN S.graph /\ x \notin S.pend /\ x \notin DOMAIN S.listen}}]

\* wire.get(lex, cb, {fast, wait})
DoGet(p, lex, fast, wait, max) ==
    /\ ops < max
    /\ Step(p, NoteGet(peer[p], wireGet(Clear(peer[p]), lex, Handle("g"), fast, wait, now),
                       Handle("g"), lex, fast, wait))
    /\ ops' = ops + 1
    /\ UNCHANGED <<now, net, ticks>>

\* the pub a GET of {"#": soul, ".": "pub"} finds on this wire, or Null
CurrentPub(S, soul) ==
    IF CurVal(S.graph, soul, "pub") # Null THEN CurVal(S.graph, soul, "pub")
    ELSE CurVal(S.store, soul, "pub")

\* an observer's note of a wire.put: the data, and the souls whose current
\* pub exists and differs from the incoming pub
NotePut(S, T, h, data) ==
    [T EXCEPT !.puts = (h :> [data |-> data,
                              differs |-> {soul \in DOMAIN data :
                                  /\ "pub" \in DOMAIN data[soul].val
                                  /\ CurrentPub(S, soul) # Null
                                  /\ CurrentPub(S, soul) # data[soul].val["pub"]}]) @@ @]

\* wire.put(data, cb)
DoPut(p, data, max) ==
    /\ ops < max
    /\ Step(p, NotePut(peer[p], wirePut(Clear(peer[p]), data, Handle("p"), now),
                       Handle("p"), data))
    /\ ops' = ops + 1
    /\ UNCHANGED <<now, net, ticks>>

\* wire.on(lex, cb, get)
DoOn(p, lex, cb, get, max) ==
    /\ ops < max
    /\ Step(p, wireOn(Clear(peer[p]), lex, cb, get, now))
    /\ ops' = ops + 1
    /\ UNCHANGED <<now, net, ticks>>

\* wire.off(lex, cb)
DoOff(p, lex, cb, max) ==
    /\ ops < max
    /\ Step(p, wireOff(Clear(peer[p]), lex, cb))
    /\ ops' = ops + 1
    /\ UNCHANGED <<now, net, ticks>>

\* the transport opens
DoOpen(p, max) ==
    /\ ops < max
    /\ ~peer[p].conn
    /\ Step(p, wireOpen(Clear(peer[p]), now))
    /\ ops' = ops + 1
    /\ UNCHANGED <<now, net, ticks>>

\* the transport closes: isConnected() turns false
DoClose(p, max) ==
    /\ ops < max
    /\ peer[p].conn
    /\ Step(p, [Clear(peer[p]) EXCEPT !.conn = FALSE])
    /\ ops' = ops + 1
    /\ UNCHANGED <<now, net, ticks>>

\* the transport's onMessage hands a remote peer's frame to handleMessage
Recv(p, msg, max) ==
    /\ ops < max
    /\ Step(p, receive(NoteRecv(Clear(peer[p]), msg), msg, "server", now))
    /\ ops' = ops + 1
    /\ UNCHANGED <<now, net, ticks>>

\* a transport server's onMessage hands a frame of connection clientId to
\* handleMessage
RecvFrom(p, clientId, msg, max) ==
    /\ ops < max
    /\ Step(p, receive(NoteRecv(Clear(peer[p]), msg), msg, clientId, now))
    /\ ops' = ops + 1
    /\ UNCHANGED <<now, net, ticks>>

\* a remote peer's frame is on its way to the wires in `to`
Inject(msg, to, max) ==
    /\ ops < max
    /\ net' = net \cup {[to |-> p, msg |-> msg] : p \in to}
    /\ ops' = ops + 1
    /\ UNCHANGED <<peer, now, ticks>>

\* ... and arrives
Deliver(x) ==
    /\ x \in net
    /\ Step(x.to, receive(NoteRecv(Clear(peer[x.to]), x.msg), x.msg, "server", now))
    /\ net' = net \ {x}
    /\ UNCHANGED <<now, ops, ticks>>

\* a timer of wire p is due; timers of one delay run in the order they were set
Fire(p, x) ==
    /\ x \in peer[p].timers
    /\ x.k # "held"
    /\ x.due <= now
    /\ \A y \in peer[p].timers : (y.due <= now /\ y.delay = x.delay) => y.n >= x.n
    /\ Step(p, fireTimer([Clear(peer[p]) EXCEPT !.timers = @ \ {x}], x, now))
    /\ UNCHANGED <<now, net, ops, ticks>>

\* the delay of a frame the rate limiter held back is over: handleMessage
\* goes on after its await
Wake(p, x) ==
    /\ x \in peer[p].timers
    /\ x.k = "held"
    /\ x.due <= now
    /\ Step(p, wake([Clear(peer[p]) EXCEPT !.timers = @ \ {x}], x.id, now))
    /\ UNCHANGED <<now, net, ops, ticks>>

AllTimers == UNION {peer[p].timers : p \in Peers}

\* the clock moves on by d ms, or to the next timer if that is due sooner
Tick(d, max) ==
    /\ ticks < max
    /\ \A x \in AllTimers : x.due > now
    /\ now' = Min({now + d} \cup {x.due : x \in AllTimers})
    /\ ticks' = ticks + 1
    /\ peer' = [p \in Peers |-> Clear(peer[p])]
    /\ UNCHANGED <<net, ops>>

Timeout == \E p \in Peers : \E x \in peer[p].timers : Fire(p, x)

\* ------------------------------------------------------------------ inputs
Put1(soul, f, st, v) == (soul :> Node((f :> st), (f :> v), EmptyFn))

Idle(p) == InitPeer(p, FALSE, "local", DefaultMaxQueueLength, DefaultMaxAge, EmptyFn)

InitWith(cfg) ==
    /\ peer = cfg
    /\ now = T0
    /\ net = {}
    /\ ops = 0
    /\ ticks = 0

\* ---- SpecHam: HAM merges under local puts, inbound PUTs and deferral -----
\* Wire A listens to soul k; writes carry a past state, a state 100 ms ahead
\* or a state more than a day ahead.
Listening(p, souls) ==
    [Idle(p) EXCEPT !.listen = [s \in souls |-> <<[f |-> "", cb |-> "L1"]>>]]

InitHam == InitWith([p \in Peers |-> IF p = "A" THEN Listening(p, {"k"}) ELSE Idle(p)])

States(t) == {1, 2, t + 100, t + DAY + 100}
Values == {Str("alpha"), Str("beta")}
Writes(t) == {Put1("k", "name", st, v) : st \in States(t), v \in Values}

HamLocalPut == \E w \in Writes(now) : DoPut("A", w, MaxHamOps)
HamRemotePut == \E w \in Writes(now) :
                    Recv("A", Msg(Handle("m"), "", NoGet, w, "", ""), MaxHamOps)
HamTime == \E d \in {100, DAY} : Tick(d, MaxHamTicks)

NextHam == HamLocalPut \/ HamRemotePut \/ Timeout \/ HamTime

SpecHam == InitHam /\ [][NextHam]_vars

\* the writes to plain souls that were handed to HAM, by wire.put or inbound
Handed(S) == {w \in S.subm : ~IsUserSoul(w.soul) /\ ~IsAliasSoul(w.soul)}

\* C5: a PUT, submitted through wire.put or received inbound, whose field
\* state is now + D with 0 < D <= 24h is not applied before D ms have
\* elapsed and is applied (or superseded by a later state) once they have;
\* a PUT with D > 24h is never applied.
C5_Deferral ==
    \A p \in Peers :
        /\ \A s \in DOMAIN peer[p].graph : \A f \in DOMAIN peer[p].graph[s].st :
              /\ peer[p].graph[s].st[f] <= now
              /\ \E w \in Handed(peer[p]) :
                    /\ w.soul = s /\ w.f = f
                    /\ w.st = peer[p].graph[s].st[f] /\ w.val = peer[p].graph[s].val[f]
                    /\ w.st <= w.at + DAY
        /\ \A w \in Handed(peer[p]) :
              (w.at < w.st /\ w.st <= w.at + DAY /\ now > w.st)
                  => CurSt(peer[p].graph, w.soul, w.f) >= w.st

\* ---- SpecGet: wire.get against ACKs, the timeout and a full send queue ----
\* Wire A sends through a message queue of length SmallQueue; its store
\* holds soul j, its graph is empty.
StoredJ == ("j" :> Node(("name" :> 1), ("name" :> Str("alpha")), EmptyFn))

InitGet == InitWith([p \in Peers |->
              IF p = "A" THEN InitPeer(p, FALSE, "queue", SmallQueue, DefaultMaxAge, StoredJ)
              ELSE Idle(p)])

\* a soul, or a field with the caller's own wait, that neither the graph nor
\* the store has; or the soul the store has
GetCall == \E x \in {[lex |-> Lex("k", ""), wait |-> DefaultWait],
                      [lex |-> Lex("k", "name"), wait |-> ShortWait],
                      [lex |-> Lex("j", ""), wait |-> DefaultWait]} :
               DoGet("A", x.lex, FALSE, x.wait, MaxGetOps)

\* a remote peer answers request `at`, with data or with nothing
GetAck == \E put \in {EmptyFn, Put1("k", "name", 1, Str("alpha"))} :
              Recv("A", Msg(Handle("m"), "A1", NoGet, put, "", ""), MaxGetOps)

GetTime == Tick(DefaultWait, MaxGetTicks)

NextGet == GetCall \/ GetAck \/ Timeout \/ GetTime

SpecGet == InitGet /\ [][NextGet]_vars

\* the callbacks of wire.get calls that missed both the graph and the store
Missed(S) == {h \in DOMAIN S.gets : S.gets[h].miss}

\* C7 as stated: every wire.get that neither the graph nor the store satisfied
\* and that no ACK answered has, once its wait is over, called cb with the
\* null-valued subgraph, and the queue holds no entry for its request id.
C7_TimeoutAlways ==
    \A p \in Peers : \A h \in Missed(peer[p]) :
        ("ack" \notin Kinds(peer[p], h) /\ now > peer[p].gets[h].due)
            => /\ "null" \in Kinds(peer[p], h)
               /\ peer[p].gets[h].id \notin DOMAIN peer[p].queue

\* C7, amended: the same, for the wire.get calls whose GET request the send
\* function took without an error (a full message queue makes cb receive
\* {err} at once, the entry is deleted and no null reply follows).
C7_TimeoutWhenSent ==
    \A p \in Peers : \A h \in Missed(peer[p]) :
        (/\ "ack" \notin Kinds(peer[p], h)
         /\ "err" \notin Kinds(peer[p], h)
         /\ now > peer[p].gets[h].due)
            => /\ "null" \in Kinds(peer[p], h)
               /\ peer[p].gets[h].id \notin DOMAIN peer[p].queue

\* a wire.get that missed, was sent, got no ACK and timed out with null
C7_Witness ==
    \E h \in Missed(peer["A"]) :
        /\ now > peer["A"].gets[h].due
        /\ Log(peer["A"], h) = <<"null">>
        /\ peer["A"].gets[h].id \notin DOMAIN peer["A"].queue

\* C8: when an inbound message's "@" matches a pending entry of queue, the
\* payload is delivered to that callback and afterwards queue has no entry
\* under that id.
C8_AckRemovesEntry ==
    \A p \in Peers : \A i \in 1..Len(peer[p].ev) :
        peer[p].ev[i].k = "ack" => peer[p].ev[i].id \notin DOMAIN peer[p].queue

\* C9: for one wire.get call cb is invoked at most twice, and at most once
\* from the network (an ACK or the timeout).
C9_AtMostTwice ==
    \A p \in Peers : \A h \in DOMAIN peer[p].gets :
        /\ Len(Log(peer[p], h)) <= 2
        /\ Cardinality({i \in 1..Len(Log(peer[p], h)) :
                           Log(peer[p], h)[i] \in {"ack", "null"}}) <= 1

\* ---- SpecUser: puts that HAM validates, accepts in part or rejects --------
\* Wire A, with or without options.secure, sends through a message queue and
\* listens to the user soul ~P, the alias soul ~@a and the plain soul k.
InitUser == \E secure \in BOOLEAN :
    InitWith([p \in Peers |->
        IF p = "A"
        THEN [InitPeer(p, secure, "queue", DefaultMaxQueueLength, DefaultMaxAge, EmptyFn)
                EXCEPT !.listen = [s \in {"~P", "~@a", "k"} |-> <<[f |-> "", cb |-> "L1"]>>]]
        ELSE Idle(p)])

\* a node of ~P: name at state 2, pub as the node claims it, signatures s
UserNode(pub, s) ==
    ("~P" :> Node(("name" :> 2), ("name" :> Str("alpha") @@ "pub" :> Str(pub)), s))

\* name is signed, bio (at state 1) is not
MixedNode ==
    ("~P" :> Node(("name" :> 2) @@ ("bio" :> 1),
                  ("name" :> Str("alpha")) @@ ("bio" :> Str("beta")) @@ ("pub" :> Str("P")),
                  (2 :> Sig("P", 2))))

AliasNode(f) == ("~@a" :> Node((f :> 1), (f :> Rel("~P")), EmptyFn))

UserWrites(t) ==
    {UserNode("P", (2 :> Sig("P", 2))),      \* signed by P
     UserNode("P", EmptyFn),                 \* unsigned
     UserNode("P", (2 :> Sig("Q", 2))),      \* signed by another key
     UserNode("Q", (2 :> Sig("P", 2))),      \* pub differs from the soul's
     UserNode("Q", EmptyFn),                 \* both
     MixedNode,
     AliasNode("~P"), AliasNode("k"),
     Put1("k", "name", 2, Str("alpha")), Put1("k", "name", 1, Str("beta")),
     Put1("k", "name", t + DAY + 100, Str("alpha"))}

UserLocalPut == \E w \in UserWrites(now) : DoPut("A", w, MaxUserOps)
UserRemotePut == \E w \in UserWrites(now) :
                     Recv("A", Msg(Handle("m"), "", NoGet, w, "", ""), MaxUserOps)
UserTime == Tick(DefaultWait, MaxUserTicks)

NextUser == UserLocalPut \/ UserRemotePut \/ Timeout \/ UserTime

SpecUser == InitUser /\ [][NextUser]_vars

\* the fields a graph or a store holds of user souls
UserFields(g) ==
    UNION {{[soul |-> s, f |-> f, st |-> g[s].st[f], val |-> g[s].val[f]]
               : f \in (DOMAIN g[s].st) \cap (DOMAIN g[s].val)}
           : s \in {x \in DOMAIN g : IsUserSoul(x)}}

\* C6: every field that the graph or the store holds of a ~pub soul was
\* submitted in a node whose pub equals the soul's pub, with a signature of
\* the field's state that verifies under pub.
C6_UserSoulIntegrity ==
    \A p \in Peers : \A x \in UserFields(peer[p].graph) \cup UserFields(peer[p].store) :
        \E w \in peer[p].subm :
            /\ w.soul = x.soul /\ w.f = x.f /\ w.st = x.st /\ w.val = x.val
            /\ w.signed
            /\ w.pubok

\* ~P is in the graph and the store after unsigned, forged or mis-keyed
\* nodes of ~P were submitted as well
C6_Witness ==
    /\ UserFields(peer["A"].graph) # {}
    /\ UserFields(peer["A"].store) # {}
    /\ \E w \in peer["A"].subm : IsUserSoul(w.soul) /\ ~w.signed
    /\ \E w \in peer["A"].subm : IsUserSoul(w.soul) /\ ~w.pubok

\* C10: a wire.put of which HAM accepts no field calls cb with null and does
\* nothing else: no store write, no listener fired, no message sent, no
\* error surfaced.
C10_NothingAccepted ==
    [][\A p \in Peers :
          LET e == peer'[p].ev
          IN  (/\ e # <<>>
               /\ e[1].k = "mix" /\ e[1].via = "put" /\ e[1].now = EmptyFn)
              => /\ Len(e) = 2
                 /\ e[2].k = "cb" /\ e[2].msg = OkMsg
                 /\ peer'[p].store = peer[p].store
                 /\ peer'[p].outq = peer[p].outq
                 /\ peer'[p].tasks = peer[p].tasks]_vars

\* a wire.put was answered with cb(null) after HAM accepted nothing of it,
\* on a graph that already holds data
C10_Witness ==
    LET e == peer["A"].ev
    IN  /\ Len(e) = 2
        /\ e[1].k = "mix" /\ e[1].via = "put" /\ e[1].now = EmptyFn
        /\ e[2].k = "cb" /\ e[2].msg = OkMsg
        /\ peer["A"].graph # EmptyFn

\* ---- SpecEvict: HAM merges on a graph that outgrows MAX_GRAPH_SIZE --------
\* Wire A listens to the souls k, j and i; the graph holds MAX_GRAPH_SIZE souls.
InitEvict == InitWith([p \in Peers |-> IF p = "A" THEN Listening(p, {"k", "j", "i"}) ELSE Idle(p)])

EvictLocal == {Put1("k", "name", 3, Str("alpha")), Put1("k", "name", 3, Str("beta")),
               Put1("k", "other", 5, Str("alpha")), Put1("k", "name", 1, Str("beta"))}
EvictRemote == {Put1("j", "name", 2, Str("alpha")), Put1("i", "name", 2, Str("alpha"))}

EvictLocalPut == \E w \in EvictLocal : DoPut("A", w, MaxEvictOps)
EvictRemotePut == \E w \in EvictRemote :
                      Recv("A", Msg(Handle("m"), "", NoGet, w, "", ""), MaxEvictOps)
EvictTime == Tick(DefaultWait, MaxEvictTicks)

NextEvict == EvictLocalPut \/ EvictRemotePut \/ Timeout \/ EvictTime

SpecEvict == InitEvict /\ [][NextEvict]_vars

\* the graph agrees with the accepted writes on soul s: every field has the
\* maximal state accepted for it and the value accepted at that state
Agrees(S, s) ==
    /\ s \in DOMAIN S.graph
    /\ \A f \in DOMAIN S.acc[s].st :
          /\ CurSt(S.graph, s, f) = S.acc[s].st[f]
          /\ CurVal(S.graph, s, f) = S.acc[s].val[f]

InitConv == InitWith([p \in Peers |-> Listening(p, {"k"})])

\* two values at one past state (a tie), and states ahead of the clock
ConvWrites(t) ==
    {Put1("k", "name", 1, v) : v \in Values}
        \cup {Put1("k", "name", st, Str("alpha")) : st \in {t + 100, t + DAY + 100}}

ConvInject == \E w \in ConvWrites(now) :
                  Inject(Msg(Handle("m"), "", NoGet, w, "", ""), Peers, MaxConvOps)
ConvDeliver == \E x \in net : Deliver(x)
ConvTime == \E d \in {100, DAY} : Tick(d, MaxConvTicks)

NextConv == ConvInject \/ ConvDeliver \/ Timeout \/ ConvTime

SpecConv == InitConv /\ [][NextConv]_vars

Write(w) == [soul |-> w.soul, f |-> w.f, st |-> w.st, val |-> w.val]
\* the writes a wire received, and those of them that HAM admitted: the
\* state was no more than 24 h ahead of the wire's clock on arrival
Received(S) == {Write(w) : w \in {x \in S.subm : x.via = "in"}}
Admitted(S) == {Write(w) : w \in {x \in S.subm : x.via = "in" /\ x.st <= x.at + DAY}}

\* value and state of every field of every soul
GraphView(g) == [s \in DOMAIN g |-> [st |-> g[s].st, val |-> g[s].val]]

\* nothing is in flight, suspended or deferred
Settled ==
    /\ net = {}
    /\ \A p \in Peers : /\ peer[p].tasks = EmptyFn
                        /\ \A x \in peer[p].timers : x.k # "defer"

InitMsg == InitWith([p \in Peers |->
              IF p = "A"
              THEN [InitPeer(p, FALSE, "local", DefaultMaxQueueLength, DefaultMaxAge, StoredJ)
                      EXCEPT !.listen = ("k" :> <<[f |-> "", cb |-> "L1"]>>)]
              ELSE Idle(p)])

MsgIds == {"m1", "m2"}

\* k names i as a friend, and the same frame carries i
Linked ==
    Put1("k", "friend", 1, Rel("i")) @@ Put1("i", "name", 1, Str("alpha"))

MsgWrites == {Put1("k", "name", 1, Str("alpha")), Put1("j", "name", 2, Str("beta")),
              Put1("i", "name", 1, Str("alpha")), Linked}

MsgPut == \E id \in MsgIds : \E w \in MsgWrites :
              Recv("A", Msg(id, "", NoGet, w, "", ""), MaxMsgOps)
MsgGet == \E id \in MsgIds :
              Recv("A", Msg(id, "", Lex("k", "name"), EmptyFn, "", ""), MaxMsgOps)
MsgHello == \E id \in MsgIds : \E pub \in {"A", "Q"} :
                Recv("A", Msg(id, "", NoGet, EmptyFn, "", pub), MaxMsgOps)
MsgAck == \E id \in MsgIds :
              Recv("A", Msg(id, "A1", NoGet, EmptyFn, "", ""), MaxMsgOps)
MsgSubscribe == \/ DoGet("A", Lex("i", ""), FALSE, DefaultWait, MaxMsgOps)
                \/ DoOn("A", Lex("i", ""), "L2", FALSE, MaxMsgOps)
MsgUnsubscribe == \E cb \in {"", "L1"} : DoOff("A", Lex("k", ""), cb, MaxMsgOps)
MsgTime == \E d \in {DefaultWait, DefaultMaxAge} : Tick(d, MaxMsgTicks)

NextMsg == MsgPut \/ MsgGet \/ MsgHello \/ MsgAck \/ MsgSubscribe \/ MsgUnsubscribe
               \/ Timeout \/ MsgTime

SpecMsg == InitMsg /\ [][NextMsg]_vars

\* C3: an inbound message whose "#" is in the recent-seen set is dropped
\* without processing: a replay changes neither the graph, the store, the
\* listeners, the pending callbacks, the finger table, the pending
\* references, the suspended calls, the timers nor the outbound queue.
C3_Dedup ==
    [][\A p \in Peers :
          (/\ peer'[p].ev # <<>>
           /\ peer'[p].ev[1].k = "recv"
           /\ peer'[p].ev[1].id \in DOMAIN peer[p].dup)
              => /\ peer'[p].graph = peer[p].graph
                 /\ peer'[p].store = peer[p].store
                 /\ peer'[p].listen = peer[p].listen
                 /\ peer'[p].queue = peer[p].queue
                 /\ peer'[p].ft = peer[p].ft
                 /\ peer'[p].pend = peer[p].pend
                 /\ peer'[p].tasks = peer[p].tasks
                 /\ peer'[p].timers = peer[p].timers
                 /\ peer'[p].outq = peer[p].outq
                 /\ peer'[p].cblog = peer[p].cblog]_vars

\* a frame was dropped as a replay by a wire that holds data
C3_Witness ==
    /\ Len(peer["A"].ev) = 2
    /\ peer["A"].ev[1].k = "recv"
    /\ peer["A"].ev[2] = [k |-> "drop", id |-> peer["A"].ev[1].id]
    /\ peer["A"].ev[1].id # ""
    /\ peer["A"].graph # EmptyFn

\* the souls the store writes of this step took from inbound messages that
\* the note of their arrival lists, with `seen` as given
StoredUnfollowed(S, seen) ==
    {x \in S.unsub :
        /\ x.seen \in seen
        /\ \E i \in 1..Len(S.ev) :
              /\ S.ev[i].k = "store"
              /\ S.ev[i].src = x.id
              /\ x.soul \in DOMAIN S.ev[i].put}

\* C4 as stated: an inbound PUT for a soul that is not in graph, not in
\* listen and not in pendingReferences never causes a store write.
C4_Filter == \A p \in Peers : StoredUnfollowed(peer[p], BOOLEAN) = {}

\* C4, amended: an inbound PUT for a soul that is not in graph, not in the
\* store, not in listen and not in pendingReferences, the references that
\* the followed souls of the same message add included, never causes a
\* store write.
C4_FilterWithStore == \A p \in Peers : StoredUnfollowed(peer[p], {FALSE}) = {}

\* a PUT for a soul the wire follows in no way was received and handled,
\* and the store does not hold the soul
C4_Witness ==
    /\ peer["A"].ev # <<>>
    /\ peer["A"].ev[1].k = "recv"
    /\ \E x \in peer["A"].unsub :
          /\ ~x.seen
          /\ x.id = peer["A"].ev[1].id
          /\ x.soul \notin DOMAIN peer["A"].store
    /\ peer["A"].store # StoredJ

\* ---- SpecListen: listeners under local puts, inbound PUTs and on(.., get) --
\* Wire A listens to field name of soul k (L1) and to soul j (L3); L2 is
\* registered on field other of soul k with get = true.
InitListen == InitWith([p \in Peers |->
                 IF p = "A"
                 THEN [Idle(p) EXCEPT !.listen = ("k" :> <<[f |-> "name", cb |-> "L1"]>>)
                                                   @@ ("j" :> <<[f |-> "", cb |-> "L3"]>>)]
                 ELSE Idle(p)])

ListenerNames == {"L1", "L2", "L3"}

ListenWrites(t) ==
    {Put1("k", "name", st, Str("alpha")) : st \in {1, 2, t + 100}}
        \cup {Put1("k", "other", 1, Str("beta")), Put1("j", "name", 1, Str("beta"))}

ListenLocalPut == \E w \in ListenWrites(now) : DoPut("A", w, MaxListenOps)
ListenRemotePut == \E w \in ListenWrites(now) :
                       Recv("A", Msg(Handle("m"), "", NoGet, w, "", ""), MaxListenOps)
ListenOn == DoOn("A", Lex("k", "other"), "L2", TRUE, MaxListenOps)
ListenTime == Tick(DefaultWait, MaxListenTicks)

NextListen == ListenLocalPut \/ ListenRemotePut \/ ListenOn \/ Timeout \/ ListenTime

SpecListen == InitListen /\ [][NextListen]_vars

\* the store holds every field of the update with its state
Persisted(store, up) ==
    \A s \in DOMAIN up : \A f \in DOMAIN up[s].st :
        /\ s \in DOMAIN store
        /\ f \in DOMAIN store[s].st
        /\ store[s].st[f] = up[s].st[f]
        /\ store[s].val[f] = up[s].val[f]

Matches(listen, cb, up) ==
    \E s \in (DOMAIN up) \cap (DOMAIN listen) : \E i \in 1..Len(listen[s]) :
        /\ listen[s][i].cb = cb
        /\ listen[s][i].f = "" \/ listen[s][i].f \in DOMAIN up[s].st

\* HAM accepts every field of the update against graph g at clock t
AcceptedAgainst(g, up, t) ==
    \A s \in DOMAIN up : \A f \in DOMAIN up[s].st :
        /\ up[s].st[f] <= t
        /\ HAM(up[s].st[f], CurSt(g, s, f), up[s].val[f], CurVal(g, s, f)) = "incoming"

\* the update of every call suspended in this step was accepted by HAM
\* against the graph as it was, and its listeners match it; the listeners
\* run in this step are those of a call that was suspended
ListenersOfAccepted(p) ==
    /\ \A tid \in (DOMAIN peer'[p].tasks) \ (DOMAIN peer[p].tasks) :
          /\ AcceptedAgainst(peer[p].graph, peer'[p].tasks[tid].up.now, now)
          /\ \A cb \in peer'[p].tasks[tid].up.listeners :
                Matches(peer[p].listen, cb, peer'[p].tasks[tid].up.now)
    /\ \A i \in 1..Len(peer'[p].ev) :
          peer'[p].ev[i].k = "fire"
              => \E tid \in (DOMAIN peer[p].tasks) \ (DOMAIN peer'[p].tasks) :
                    /\ peer[p].tasks[tid].up.now = peer'[p].ev[i].now
                    /\ peer[p].tasks[tid].up.listeners = peer'[p].ev[i].cbs

\* the listener callbacks called outside an update's listeners
CalledAsReply(S) ==
    {S.ev[i].h : i \in {j \in 1..Len(S.ev) : S.ev[j].k = "cb"}} \cap ListenerNames

PubNode(soul, pub, st, by) ==
    (soul :> Node(("pub" :> st), ("pub" :> Str(pub)), (st :> Sig(by, st))))

HeldP == PubNode("k", "P", 1, "P") @@ PubNode("~P", "P", 1, "P")

InitSpoof == InitWith([p \in Peers |->
                IF p = "A"
                THEN [InitPeer(p, FALSE, "queue", DefaultMaxQueueLength, DefaultMaxAge,
                               StorePut(EmptyFn, HeldP))
                        EXCEPT !.graph = HeldP]
                ELSE Idle(p)])

\* puts of another pub and of the same pub, under a later state
SpoofWrites ==
    {PubNode(soul, pub, 2, pub) : soul \in {"k", "~P"}, pub \in {"P", "Q"}}

SpoofPut == \E w \in SpoofWrites : DoPut("A", w, MaxSpoofOps)
SpoofTime == Tick(DefaultWait, MaxSpoofTicks)

NextSpoof == SpoofPut \/ Timeout \/ SpoofTime

SpecSpoof == InitSpoof /\ [][NextSpoof]_vars

\* C13: a put of a soul whose current pub exists and differs from the
\* incoming pub is aborted with an error: its cb is not told of success,
\* cb has the error once the check's GET is over, the incoming pub is not
\* persisted and no PUT message with the data is sent.
C13_SpoofAborted ==
    \A p \in Peers : \A h \in DOMAIN peer[p].puts :
        LET call == peer[p].puts[h]
        IN  call.differs # {}
                => /\ "ok" \notin Kinds(peer[p], h)
                   /\ \A soul \in call.differs :
                         CurVal(peer[p].store, soul, "pub") # call.data[soul].val["pub"]
                   /\ \A i \in 1..Len(peer[p].ev) :
                         peer[p].ev[i].k = "send" => peer[p].ev[i].msg.put # call.data

\* ---- SpecSend: the outbound queue, its pacing and the transport -----------
\* Wire A is a client with one transport, connected or not, and a message
\* queue of length SendQueue; its store holds soul j.
InitSend == \E c \in BOOLEAN :
    InitWith([p \in Peers |->
        IF p = "A"
        THEN [InitPeer(p, FALSE, "queue", SendQueue, DefaultMaxAge, StoredJ) EXCEPT !.conn = c]
        ELSE Idle(p)])

SendGet == \E lex \in {Lex("k", ""), Lex("j", "name")} :
               DoGet("A", lex, FALSE, DefaultWait, MaxSendOps)
SendPut == DoPut("A", Put1("k", "name", 1, Str("alpha")), MaxSendOps)
SendOpen == DoOpen("A", MaxSendOps)
SendClose == DoClose("A", MaxSendOps)
SendTime == Tick(Pacing, MaxSendTicks)

NextSend == SendGet \/ SendPut \/ SendOpen \/ SendClose \/ Timeout \/ SendTime

SpecSend == InitSend /\ [][NextSend]_vars

\* C14: when an outbound message cannot be sent because no peer and no
\* transport is connected, the callback of the GET it carries has fired with
\* that error.
C14_SendErrorReachesGet ==
    \A p \in Peers : \A i \in 1..Len(peer[p].ev) :
        (peer[p].ev[i].k = "tx" /\ peer[p].ev[i].err # "")
            => \A h \in DOMAIN peer[p].gets :
                  peer[p].gets[h].id = peer[p].ev[i].msg.id => "err" \in Kinds(peer[p], h)

IsPrefix(a, b) == Len(a) <= Len(b) /\ SubSeq(b, 1, Len(a)) = a

InQueue(S, m) == \E i \in 1..Len(S.outq) : S.outq[i] = m

\* C16: the outbound queue never holds more than maxQueueLength messages;
\* an enqueue attempted while it is full does not add the message, and its
\* caller has the error marker.
C16_Bounded ==
    \A p \in Peers :
        /\ Len(peer[p].outq) <= peer[p].maxQ
        /\ \A i \in 1..Len(peer[p].ev) :
              peer[p].ev[i].k = "full"
                  => /\ ~InQueue(peer[p], peer[p].ev[i].msg)
                     /\ \A n \in 1..Len(peer[p].enq) : peer[p].enq[n] # peer[p].ev[i].msg.id
                     /\ \E j \in (i + 1)..Len(peer[p].ev) :
                           /\ peer[p].ev[j].k = "cb"
                           /\ peer[p].ev[j].msg.kind = "err"

\* an enqueue was refused
C16_Witness ==
    /\ Len(peer["A"].outq) = peer["A"].maxQ
    /\ \E i \in 1..Len(peer["A"].ev) : peer["A"].ev[i].k = "full"

\* ---- SpecRate: the rate limiter in front of handleMessage -----------------
\* Wire A is a transport server with connections c1 and c2, or a client
\* whose frames all come from "server".  Its busy client has sent, in the
\* last two milliseconds, two frames less than the window takes; they had
\* no "#", so that nothing but the limiter has a trace of them.  The client
\* was never throttled, or it was throttled in an earlier window, two times
\* less than the limiter bears.
RateClients(S) == IF S.mode = "server" THEN {"c1", "c2"} ELSE {"server"}
Busy(mode) == IF mode = "server" THEN "c1" ELSE "server"

Sent == ((T0 - 1) :> 1) @@ (T0 :> (maxRequests - 3))

InitRate == \E mode \in {"server", "queue"} : \E count \in {0, DisconnectAt - 2} :
    InitWith([p \in Peers |->
        IF p = "A"
        THEN [InitPeer(p, FALSE, mode, DefaultMaxQueueLength, DefaultMaxAge, EmptyFn)
                EXCEPT !.rate = (Busy(mode) :> [requests |-> Sent, lastCleanup |-> 0,
                                                throttleCount |-> count, touched |-> 0]),
                       !.passed = (Busy(mode) :> Sent),
                       !.seen = (Busy(mode) :> T0)]
        ELSE Idle(p)])

\* a HELLO as the wires send it, without "#", and one that has a "#"
RateFrames == {Msg("", "", NoGet, EmptyFn, "", "Q"), Msg("m1", "", NoGet, EmptyFn, "", "Q")}

RateRecv == \E c \in RateClients(peer["A"]) : \E f \in RateFrames :
                RecvFrom("A", c, f, MaxRateOps)
RateTime == \E d \in {windowMs, windowMs * 10} : Tick(d, MaxRateTicks)

RateWake == \E p \in Peers : \E x \in peer[p].timers : Wake(p, x)

NextRate == RateRecv \/ RateWake \/ Timeout \/ RateTime

SpecRate == InitRate /\ [][NextRate]_vars

\* the frames of a bag of times that fall into the window starting at t0
InWindow(b, t0) == BagCount(b, {x \in DOMAIN b : t0 <= x /\ x < t0 + windowMs})

\* C17: for each client, no more than 1500 requests are let through within
\* any sliding 60 s window; a request that arrives when the window holds
\* 1500 is held back for window - (now - oldest request in window) ms.
C17_HardCap ==
    \A p \in Peers :
        /\ \A c \in DOMAIN peer[p].passed : \A t0 \in DOMAIN peer[p].passed[c] :
              InWindow(peer[p].passed[c], t0) <= maxRequests
        /\ \A i \in 1..Len(peer[p].ev) :
              peer[p].ev[i].k = "hold"
                  => LET c == peer[p].ev[i].client
                     IN  peer[p].ev[i].delay =
                             windowMs - (now - Min(DOMAIN peer[p].rate[c].requests))

\* the frame that arrived in this step came from client c
Arrived(p, c) ==
    /\ c \in DOMAIN peer'[p].seen
    /\ peer'[p].ev # <<>>
    /\ peer'[p].ev[1].k = "recv"
    /\ c \notin DOMAIN peer[p].rate \/ peer'[p].rate[c] # peer[p].rate[c]

\* C18: when a client's throttle counter has reached 10 the owner of its
\* connection is told to disconnect it, so that no frame of the client is
\* let through from then on; below 10 a throttled frame is only delayed.
C18_DisconnectAtTen ==
    [][\A p \in Peers : \A c \in DOMAIN peer[p].rate :
          /\ (peer[p].rate[c].throttleCount >= DisconnectAt /\ Arrived(p, c))
                => peer'[p].passed = peer[p].passed
          /\ (/\ peer'[p].rate[c].throttleCount > peer[p].rate[c].throttleCount
              /\ peer'[p].rate[c].throttleCount < DisconnectAt)
                => DOMAIN peer'[p].held # DOMAIN peer[p].held]_vars

\* C19: a client's throttle counter is zero once 10 idle windows (10 x 60 s
\* without a request from that client) have passed.
C19_ResetWhenIdle ==
    \A p \in Peers : \A c \in DOMAIN peer[p].rate :
        now - peer[p].seen[c] >= windowMs * 10
            => Client(peer[p], c, now).throttleCount = 0

\* ---- SpecHello: two wires connect ------------------------------------------
\* Wire A is a transport server, wire B a client whose transport is not yet
\* open.  B's transport is connection c1 of A's server; what either wire
\* hands to its transport is in flight to the other while the connection
\* stands.
HelloConn == "c1"
Other(p) == IF p = "A" THEN "B" ELSE "A"
ClientOf(p) == IF p = "A" THEN HelloConn ELSE "server"

\* the frames wire p handed to its transport in the step that left it as S
Outbound(p, S) ==
    {[to |-> Other(p), msg |-> S.ev[i].msg] :
        i \in {j \in 1..Len(S.ev) :
                  \/ S.ev[j].k = "hello"
                  \/ S.ev[j].k = "tx" /\ S.ev[j].err = "" /\ S.ev[j].to # {}}}

InitHello ==
    InitWith([p \in Peers |->
        IF p = "A"
        THEN InitPeer(p, FALSE, "server", DefaultMaxQueueLength, DefaultMaxAge, StoredJ)
        ELSE [InitPeer(p, FALSE, "queue", DefaultMaxQueueLength, DefaultMaxAge, EmptyFn)
                EXCEPT !.conn = FALSE]])

\* B's transport opens: B's onOpen and A's onConnection run
HelloOpen ==
    /\ ops < MaxHelloOps
    /\ ~peer["B"].conn
    /\ peer' = [peer EXCEPT !["A"] = onConnection(Clear(@), HelloConn),
                            !["B"] = wireOpen(Clear(@), now)]
    /\ net' = net \cup Outbound("A", peer'["A"]) \cup Outbound("B", peer'["B"])
    /\ ops' = ops + 1
    /\ UNCHANGED <<now, ticks>>

\* the connection closes: A's onDisconnection runs, frames in flight are lost
HelloClose ==
    /\ ops < MaxHelloOps
    /\ peer["B"].conn
    /\ peer' = [peer EXCEPT !["A"] = onDisconnection(Clear(@), HelloConn),
                            !["B"] = [Clear(@) EXCEPT !.conn = FALSE]]
    /\ net' = {}
    /\ ops' = ops + 1
    /\ UNCHANGED <<now, ticks>>

\* a frame in flight arrives: the transport's onMessage
HelloDeliver == \E x \in net :
    /\ Step(x.to, receive(NoteRecv(Clear(peer[x.to]), x.msg), x.msg, ClientOf(x.to), now))
    /\ net' = (net \ {x}) \cup Outbound(x.to, peer'[x.to])
    /\ UNCHANGED <<now, ops, ticks>>

\* wire.get on B
HelloGet ==
    /\ ops < MaxHelloOps
    /\ Step("B", NoteGet(peer["B"],
                         wireGet(Clear(peer["B"]), Lex("j", "name"), Handle("g"), FALSE,
                                 DefaultWait, now),
                         Handle("g"), Lex("j", "name"), FALSE, DefaultWait))
    /\ net' = net \cup (IF peer["B"].conn THEN Outbound("B", peer'["B"]) ELSE {})
    /\ ops' = ops + 1
    /\ UNCHANGED <<now, ticks>>

\* a timer of either wire is due
HelloTimeout == \E p \in Peers : \E x \in peer[p].timers :
    /\ x.k # "held"
    /\ x.due <= now
    /\ \A y \in peer[p].timers : (y.due <= now /\ y.delay = x.delay) => y.n >= x.n
    /\ Step(p, fireTimer([Clear(peer[p]) EXCEPT !.timers = @ \ {x}], x, now))
    /\ net' = net \cup (IF peer["B"].conn THEN Outbound(p, peer'[p]) ELSE {})
    /\ UNCHANGED <<now, ops, ticks>>

HelloTime == \E d \in {Pacing, DefaultWait} : Tick(d, MaxHelloTicks)

NextHello == HelloOpen \/ HelloClose \/ HelloDeliver \/ HelloGet \/ HelloTimeout \/ HelloTime

SpecHello == InitHello /\ [][NextHello]_vars

\* C20: after the two wires have connected and the HELLO of each has reached
\* the other, each wire's finger table has an entry for the other's peer id.
C20_HandshakeFillsTables ==
    (/\ peer["B"].conn
     /\ net = {}
     /\ HelloConn \in DOMAIN peer["A"].seen
     /\ "server" \in DOMAIN peer["B"].seen)
        => /\ peer["B"].id \in peer["A"].ft
           /\ peer["A"].id \in peer["B"].ft

\* ---- SpecDrop: connections of a transport server come and go -------------
\* Wire A is a transport server.  Remote peers Q and R say HELLO, with a "#",
\* on connections c1 and c2; connections disconnect and are never reused
\* (the server draws a fresh id for every connection).
DropConns == {"c1", "c2"}
DropPubs == {"Q", "R"}

InitDrop ==
    InitWith([p \in Peers |->
        IF p = "A"
        THEN InitPeer(p, FALSE, "server", DefaultMaxQueueLength, DefaultMaxAge, StoredJ)
        ELSE Idle(p)])

DropHello == \E c \in DropConns \ peer["A"].closed : \E pub \in DropPubs :
    RecvFrom("A", c, Msg(Handle("m"), "", NoGet, EmptyFn, "", pub), MaxDropOps)

\* connection c disconnects
DropClose == \E c \in DropConns \ peer["A"].closed :
    /\ ops < MaxDropOps
    /\ Step("A", onDisconnection(Clear(peer["A"]), c))
    /\ ops' = ops + 1
    /\ UNCHANGED <<now, net, ticks>>

DropGet == DoGet("A", Lex("k", "name"), FALSE, DefaultWait, MaxDropOps)
DropTime == Tick(DefaultWait, MaxDropTicks)

NextDrop == DropHello \/ DropClose \/ DropGet \/ Timeout \/ DropTime

SpecDrop == InitDrop /\ [][NextDrop]_vars

\* C21: once a connection has disconnected, the finger table holds no peer
\* that a HELLO on that connection registered, and no routed send is
\* addressed to such a peer.
C21_DisconnectDropsPeer ==
    \A p \in Peers :
        /\ \A id \in peer[p].ft : peer[p].via[id] \notin peer[p].closed
        /\ \A i \in 1..Len(peer[p].ev) :
              peer[p].ev[i].k = "tx"
                  => \A id \in peer[p].ev[i].to \cap DOMAIN peer[p].via :
                        peer[p].via[id] \notin peer[p].closed

\* ---- SpecTable: the finger table under addPeer and removePeer ------------
\* Wire A's table holds n1 .. n19, which all fall into one bucket; peers of
\* that bucket and of another are added and removed, the calls overlapping
\* at their awaits.
Prefilled == SubSeq(TableIds, 1, K_BUCKET_SIZE - 1)

InitTable ==
    InitWith([p \in Peers |->
        IF p = "A"
        THEN [Idle(p) EXCEPT !.buckets = (bucketIndex("A", "n1") :> Prefilled),
                             !.ft = {Prefilled[i] : i \in DOMAIN Prefilled}]
        ELSE Idle(p)])

TableAdd == \E id \in {"A", "Q", "n1", TableIds[K_BUCKET_SIZE], TableIds[K_BUCKET_SIZE + 1]} :
    /\ ops < MaxTableOps
    /\ Step("A", addStart(Clear(peer["A"]), id))
    /\ ops' = ops + 1
    /\ UNCHANGED <<now, net, ticks>>

TableRemove == \E id \in {"Q", "n1", TableIds[K_BUCKET_SIZE]} :
    /\ ops < MaxTableOps
    /\ Step("A", removeStart(Clear(peer["A"]), id))
    /\ ops' = ops + 1
    /\ UNCHANGED <<now, net, ticks>>

TableResume == \E cid \in DOMAIN peer["A"].calls :
    /\ Step("A", resumeCall(Clear(peer["A"]), cid))
    /\ UNCHANGED <<now, net, ops, ticks>>

NextTable == TableAdd \/ TableRemove \/ TableResume

SpecTable == InitTable /\ [][NextTable]_vars

\* every bucket holds at most K peers, each in the bucket of its distance
BucketsBounded ==
    \A p \in Peers : \A idx \in DOMAIN peer[p].buckets :
        /\ Len(peer[p].buckets[idx]) <= K_BUCKET_SIZE
        /\ \A i \in DOMAIN peer[p].buckets[idx] :
              bucketIndex(p, peer[p].buckets[idx][i]) = idx

\* an addPeer of a peer the table does not hold, that finds its bucket
\* full when it comes to push, is refused and changes nothing
FullBucketRefuses ==
    \A p \in Peers : \A cid \in DOMAIN peer[p].calls :
        LET c == peer[p].calls[cid]
        IN  (/\ cid \notin DOMAIN peer'[p].calls
             /\ c.pc = "idx"
             /\ c.id \notin peer[p].ft
             /\ Len(bucketOf(peer[p], bucketIndex(p, c.id))) >= K_BUCKET_SIZE)
                => /\ peer'[p].buckets = peer[p].buckets
                   /\ peer'[p].ft = peer[p].ft
                   /\ peer'[p].ev = <<[k |-> "added", id |-> c.id, ok |-> FALSE]>>

\* C22: after any sequence of addPeer and removePeer calls every bucket of
\* the finger table holds at most K = 20 peers, and an addPeer of a new peer
\* into a full bucket is rejected and leaves the bucket's members unchanged.
C22_BucketsBoundedAndStable == []BucketsBounded /\ [][FullBucketRefuses]_vars

\* a new peer was refused by a bucket of 20
C22_Witness ==
    /\ \E idx \in DOMAIN peer["A"].buckets : Len(peer["A"].buckets[idx]) = K_BUCKET_SIZE
    /\ \E i \in 1..Len(peer["A"].ev) :
          /\ peer["A"].ev[i].k = "added"
          /\ ~peer["A"].ev[i].ok
          /\ peer["A"].ev[i].id \notin peer["A"].ft
          /\ peer["A"].ev[i].id # "A"


\* C24: every hop reduces the XOR distance to the target: a peer sends a
\* routed message only to peers whose distance to the target soul is
\* strictly smaller than its own distance.
C24_EveryHopCloser ==
    \A p \in Peers : \A i \in 1..Len(peer[p].ev) :
        (peer[p].ev[i].k = "tx" /\ routedTarget(peer[p].ev[i].msg) # "")
            => \A id \in peer[p].ev[i].to \ {"broadcast", "transport"} :
                  isCloser(id, peer[p].id, routedTarget(peer[p].ev[i].msg))

(***************************************************************************)
(* fingerTable.findClosestPeers: the table of A is filled and emptied, and *)
(* asked for the k peers closest to a target                               *)
(***************************************************************************)
ClosestIds == {"B", "Q", "R", "n1", "n2"}
ClosestTargets == {"k", "j", "~P", "Q"}
ClosestKs == {0, 1, 2, 3, DefaultK}

InitClosest == InitWith([p \in Peers |-> Idle(p)])

ClosestAdd == \E id \in ClosestIds \cup {"A"} :
    /\ ops < MaxClosestOps
    /\ Step("A", addPeer(Clear(peer["A"]), id))
    /\ ops' = ops + 1
    /\ UNCHANGED <<now, net, ticks>>

ClosestRemove == \E id \in ClosestIds :
    /\ ops < MaxClosestOps
    /\ Step("A", removePeer(Clear(peer["A"]), id))
    /\ ops' = ops + 1
    /\ UNCHANGED <<now, net, ticks>>

ClosestFind == \E targetId \in ClosestTargets, k \in ClosestKs :
    /\ Step("A", Emit(Clear(peer["A"]),
                      [k |-> "closest", target |-> targetId, n |-> k,
                       res |-> findClosestPeers(peer["A"], targetId, k)]))
    /\ UNCHANGED <<now, net, ops, ticks>>

NextClosest == ClosestAdd \/ ClosestRemove \/ ClosestFind

SpecClosest == InitClosest /\ [][NextClosest]_vars

\* a <= b in XOR distance to targetId
NotFarther(a, b, targetId) ==
    compareDistance(distance(a, targetId), distance(b, targetId)) <= 0

\* C23: findClosestPeers(target, k) returns min(k, number of known peers)
\* distinct peers in ascending SHA-256-XOR distance to the target, and every
\* returned peer is at least as close to the target as every known peer
\* that is not returned.
C23_ClosestSorted ==
    \A i \in 1..Len(peer["A"].ev) :
        peer["A"].ev[i].k = "closest" =>
            LET e == peer["A"].ev[i]
                known == peer["A"].ft
            IN  /\ Len(e.res) = Min({e.n, Cardinality(known)})
                /\ \A a \in DOMAIN e.res : e.res[a] \in known
                /\ \A a, b \in DOMAIN e.res : a # b => e.res[a] # e.res[b]
                /\ \A a, b \in DOMAIN e.res :
                      a < b => NotFarther(e.res[a], e.res[b], e.target)
                /\ \A a \in DOMAIN e.res :
                      \A x \in known \ {e.res[b] : b \in DOMAIN e.res} :
                          NotFarther(e.res[a], x, e.target)

\* two of four known peers were returned, and not in the order of the table
C23_Witness ==
    \E i \in 1..Len(peer["A"].ev) :
        /\ peer["A"].ev[i].k = "closest"
        /\ peer["A"].ev[i].n = 2
        /\ Len(peer["A"].ev[i].res) = 2
        /\ Cardinality(peer["A"].ft) = 4
        /\ peer["A"].ev[i].res # SubSeq(SeqOf(peer["A"].ft), 1, 2)


(***************************************************************************)
(* A relays: server A holds soul j and not soul i, Q has said hello on     *)
(* connection c2 or will, and PUT frames arrive on connection c1           *)
(***************************************************************************)
RelayIds == {"m1", "m2"}
RelayWrites == {Put1("j", "name", 2, Str("beta")), Put1("i", "name", 1, Str("alpha"))}

InitRelay ==
    InitWith([p \in Peers |->
        IF p = "A"
        THEN InitPeer(p, FALSE, "server", DefaultMaxQueueLength, DefaultMaxAge, StoredJ)
        ELSE Idle(p)])

RelayHello == RecvFrom("A", "c2", Msg(Handle("h"), "", NoGet, EmptyFn, "", "Q"), MaxRelayOps)
RelayPut == \E id \in RelayIds : \E w \in RelayWrites :
    RecvFrom("A", "c1", Msg(id, "", NoGet, w, "", ""), MaxRelayOps)
RelayTime == Tick(DefaultWait, MaxRelayTicks)

NextRelay == RelayHello \/ RelayPut \/ Timeout \/ RelayTime

\* timers that are due fire, and time passes while the bound allows
SpecRelay == InitRelay /\ [][NextRelay]_vars /\ WF_vars(Timeout) /\ WF_vars(RelayTime)

\* A's handleMessage has taken the PUT frame id as new
RelayAccepted(id) ==
    /\ \E i \in 1..Len(peer["A"].ev) : peer["A"].ev[i].k = "recv" /\ peer["A"].ev[i].id = id
    /\ \A i \in 1..Len(peer["A"].ev) : peer["A"].ev[i].k # "drop"
    /\ \A i \in 1..Len(peer["A"].ev) : peer["A"].ev[i].k # "hold"
    /\ \A i \in 1..Len(peer["A"].ev) : peer["A"].ev[i].k # "limit"

\* A hands a message that carries a put to its send function
RelayForwarded ==
    \E i \in 1..Len(peer["A"].ev) :
        /\ peer["A"].ev[i].k \in {"send", "tx"}
        /\ peer["A"].ev[i].msg.put # EmptyFn

\* A never sends a message that carries a put
RelayNever == ~RelayForwarded

\* C25: a PUT received by a peer is forwarded onward to that peer's other
\* connections after local handling, whether or not its souls are
\* subscribed and persisted locally.
C25_PutForwarded == \A id \in RelayIds : RelayAccepted(id) ~> RelayForwarded


\* C26: wire.get sends a GET wire message only when Get(lex, graph) does not
\* satisfy the request; when the local graph satisfies it, cb is called with
\* that data and no GET message is enqueued.
C26_GetOnlyWhenMissing ==
    \A p \in Peers : \A i \in 1..Len(peer[p].ev) :
        (peer[p].ev[i].k = "send" /\ peer[p].ev[i].msg.get # NoGet)
            => Get(peer[p].ev[i].msg.get, peer[p].graph, FALSE) = EmptyFn


(***************************************************************************)
(* on and off: listeners are put on souls k and j of A and taken off k,    *)
(* and writes to both souls are accepted                                   *)
(***************************************************************************)
OffLex == {Lex("k", "name"), Lex("k", ""), Lex("j", "name")}
OffNames == {"L1", "L2"}
OffWrites == {Put1("k", "name", 1, Str("alpha")), Put1("k", "name", 2, Str("beta")),
              Put1("j", "name", 1, Str("alpha"))}

\* the callbacks on(lex, cb) has pushed on soul
Registered(S, soul) ==
    IF soul \in DOMAIN S.listen
    THEN {S.listen[soul][i].cb : i \in DOMAIN S.listen[soul]} ELSE {}

NoteOn(T, lex, cb) ==
    [T EXCEPT !.offed = @ \ {[soul |-> lex.soul, cb |-> cb]}]

NoteOff(S, T, lex, cb) ==
    [Emit(T, [k |-> "off", soul |-> lex.soul, cb |-> cb]) EXCEPT !.offed =
        @ \cup {[soul |-> lex.soul, cb |-> c] :
                  c \in IF cb = "" THEN Registered(S, lex.soul) ELSE {cb}}]

InitOff == InitWith([p \in Peers |-> Idle(p)])

OffOn == \E lex \in OffLex : \E cb \in OffNames :
    /\ ops < MaxOffOps
    /\ Step("A", NoteOn(wireOn(Clear(peer["A"]), lex, cb, FALSE, now), lex, cb))
    /\ ops' = ops + 1
    /\ UNCHANGED <<now, net, ticks>>

\* off is called while no write is on its way
OffOff == \E cb \in OffNames \cup {""} :
    /\ ops < MaxOffOps
    /\ peer["A"].tasks = EmptyFn
    /\ Step("A", NoteOff(peer["A"], wireOff(Clear(peer["A"]), Lex("k", ""), cb),
                         Lex("k", ""), cb))
    /\ ops' = ops + 1
    /\ UNCHANGED <<now, net, ticks>>

OffPut == \E w \in OffWrites : DoPut("A", w, MaxOffOps)

OffTime == Tick(DefaultWait, MaxOffTicks)

NextOff == OffOn \/ OffOff \/ OffPut \/ Timeout \/ OffTime

SpecOff == InitOff /\ [][NextOff]_vars

\* no accepted write calls a callback that was taken off its soul
OffSilences ==
    \A p \in Peers : \A i \in 1..Len(peer[p].ev) :
        peer[p].ev[i].k = "fire"
            => \A soul \in DOMAIN peer[p].ev[i].now : \A cb \in peer[p].ev[i].cbs :
                  [soul |-> soul, cb |-> cb] \notin peer[p].offed

\* off leaves the listeners of every other soul as they are
OffKeepsOthers ==
    \A p \in Peers : \A i \in 1..Len(peer'[p].ev) :
        peer'[p].ev[i].k = "off"
            => \A soul \in (DOMAIN peer[p].listen) \ {peer'[p].ev[i].soul} :
                  /\ soul \in DOMAIN peer'[p].listen
                  /\ peer'[p].listen[soul] = peer[p].listen[soul]

\* C27: after off(lex, cb), the callback cb is not invoked by any later
\* accepted write to that soul; after off(lex) without a callback, no
\* listener previously registered for that soul is invoked; listeners of
\* other souls are unaffected.
C27_OffSilences == []OffSilences /\ [][OffKeepsOthers]_vars


(***************************************************************************)
(* echoes: A, a client that holds soul j, asks, writes, answers a GET and  *)
(* acknowledges a PUT, and frames with the ids of its own messages arrive  *)
(***************************************************************************)
InitEcho ==
    InitWith([p \in Peers |->
        IF p = "A"
        THEN InitPeer(p, FALSE, "queue", DefaultMaxQueueLength, DefaultMaxAge, StoredJ)
        ELSE Idle(p)])

EchoGet == DoGet("A", Lex("k", "name"), FALSE, DefaultWait, MaxEchoOps)
EchoPut == DoPut("A", Put1("j", "name", 2, Str("beta")), MaxEchoOps)
EchoAsk == Recv("A", Msg(Handle("m"), "", Lex("j", "name"), EmptyFn, "", ""), MaxEchoOps)
EchoWrite == Recv("A", Msg(Handle("m"), "", NoGet, Put1("j", "name", 3, Str("beta")), "", ""),
                  MaxEchoOps)
\* a frame comes in under the id of a message A has sent
EchoBack == \E i \in DOMAIN peer["A"].enq :
    Recv("A", Msg(peer["A"].enq[i], "", NoGet, Put1("j", "name", 5, Str("alpha")), "", ""),
         MaxEchoOps)
EchoTime == \E d \in {DefaultWait, DefaultMaxAge} : Tick(d, MaxEchoTicks)

NextEcho == EchoGet \/ EchoPut \/ EchoAsk \/ EchoWrite \/ EchoBack \/ Timeout \/ EchoTime

SpecEcho == InitEcho /\ [][NextEcho]_vars

\* the id of every message handed to the send function is in dup
TrackOnSend ==
    \A p \in Peers : \A i \in 1..Len(peer[p].ev) :
        peer[p].ev[i].k = "send" => peer[p].ev[i].msg.id \in DOMAIN peer[p].dup

\* a frame that arrives under the id of a sent message, the id still being
\* in dup, changes nothing
EchoDropped ==
    \A p \in Peers :
        (/\ peer'[p].ev # <<>>
         /\ peer'[p].ev[1].k = "recv"
         /\ \E i \in DOMAIN peer[p].enq : peer[p].enq[i] = peer'[p].ev[1].id
         /\ peer'[p].ev[1].id \in DOMAIN peer[p].dup)
            => /\ peer'[p].graph = peer[p].graph
               /\ peer'[p].store = peer[p].store
               /\ peer'[p].queue = peer[p].queue
               /\ peer'[p].pend = peer[p].pend
               /\ peer'[p].tasks = peer[p].tasks
               /\ peer'[p].outq = peer[p].outq
               /\ peer'[p].enq = peer[p].enq
               /\ peer'[p].cblog = peer[p].cblog

\* C28: every message this wire originates (GET, PUT, GET reply, PUT ACK)
\* has its id tracked in dup when it is sent, so if the same message comes
\* back on an inbound connection while its id is still retained it is
\* dropped without processing.
C28_TrackOnSend == []TrackOnSend /\ [][EchoDropped]_vars

\* A has sent a GET reply, and a frame under the id of one of its messages
\* was dropped
C28_Witness ==
    /\ Len(peer["A"].ev) = 2
    /\ peer["A"].ev[1].k = "recv"
    /\ peer["A"].ev[2] = [k |-> "drop", id |-> peer["A"].ev[1].id]
    /\ \E i \in DOMAIN peer["A"].enq : peer["A"].enq[i] = peer["A"].ev[1].id
    /\ Len(peer["A"].enq) >= 2


(***************************************************************************)
(* dup: frames with three ids reach A, which follows no soul, while time   *)
(* passes in halves of maxAge                                              *)
(***************************************************************************)
DupIds == {"m1", "m2", "m3"}

InitDup == InitWith([p \in Peers |-> Idle(p)])

DupRecv == \E id \in DupIds :
    Recv("A", Msg(id, "", NoGet, Put1("i", "name", 1, Str("alpha")), "", ""), MaxDupOps)
DupTime == \E d \in {DefaultMaxAge \div 2, DefaultMaxAge} : Tick(d, MaxDupTicks)

NextDup == DupRecv \/ Timeout \/ DupTime

SpecDup == InitDup /\ [][NextDup]_vars

\* an entry touched less than maxAge ago is still there after the step
Retained ==
    \A p \in Peers : \A id \in DOMAIN peer[p].dup :
        now' - peer[p].dup[id] < peer[p].maxAge => id \in DOMAIN peer'[p].dup

\* no entry is older than maxAge
Expired ==
    \A p \in Peers : \A id \in DOMAIN peer[p].dup : now - peer[p].dup[id] <= peer[p].maxAge

\* an entry leaves the store only when the sweep timer fires, and the sweep
\* takes the entries older than maxAge and no other
SweptOnly ==
    \A p \in Peers :
        \/ DOMAIN peer[p].dup \subseteq DOMAIN peer'[p].dup
        \/ /\ \E x \in peer[p].timers \ peer'[p].timers : x.k = "sweep" /\ x.due <= now
           /\ DOMAIN peer'[p].dup =
                  {id \in DOMAIN peer[p].dup : now - peer[p].dup[id] <= peer[p].maxAge}

Tied(S, w1, w2) ==
    /\ w1 \in S.subm /\ w2 \in S.subm
    /\ w1.soul = w2.soul /\ w1.f = w2.f
    /\ w1.st = w2.st /\ w1.val # w2.val
    /\ w1.st <= w1.at /\ w2.st <= w2.at

GraphBounded ==
    \A p \in Peers : Cardinality(DOMAIN peer[p].graph) <= MAX_GRAPH_SIZE

\* the node of soul after the merge that accepted now, before the trim
MergedNode(g, soul, accepted) ==
    IF soul \in DOMAIN accepted THEN MergeNode(g, soul, accepted[soul]) ELSE g[soul]

\* a soul that a merge drops has a maximum state no larger than that of
\* any soul the merge keeps
EvictsLowest ==
    \A p \in Peers : \A i \in 1..Len(peer'[p].ev) :
        peer'[p].ev[i].k = "mix"
            => \A gone \in ((DOMAIN peer[p].graph) \cup (DOMAIN peer'[p].ev[i].now))
                               \ (DOMAIN peer'[p].graph) :
                  \A kept \in DOMAIN peer'[p].graph :
                      MaxState(MergedNode(peer[p].graph, gone, peer'[p].ev[i].now))
                          <= MaxState(peer'[p].graph[kept])

\* C31: after every HAM merge the in-memory graph holds at most
\* MAX_GRAPH_SIZE souls, and the souls evicted on overflow are those whose
\* maximum field state is smallest.
C31_BoundedGraph == []GraphBounded /\ [][EvictsLowest]_vars

\* the merge A has just made accepted a soul and the graph is full, a soul
\* having been dropped from it
C31_Witness ==
    /\ Cardinality(DOMAIN peer["A"].graph) = MAX_GRAPH_SIZE
    /\ peer["A"].evicted # {}
    /\ \E i \in 1..Len(peer["A"].ev) :
          /\ peer["A"].ev[i].k = "mix"
          /\ peer["A"].ev[i].now # EmptyFn
          /\ (DOMAIN peer["A"].ev[i].now) \cap peer["A"].evicted = {}


\* ---------------------------------------------------------------------
\* Radisk: packed files under a size cap (radisk.ts)
\* ---------------------------------------------------------------------
MaxDiskOps == 5
MaxBatch == 2

\* opt.size, in bytes (100 in the tests)
DiskSize == 6
\* the bytes of a record besides its value
RecordBytes == 1
\* a value several of which fit in a file, and one that fills a file alone
SmallValue == 1
BigValue == 5

\* keys: the tens digit is the first character, the units digit the rest;
\* 10 is the key "1", 11..13 are the keys "1a".."1c"
DiskKeys == {10, 11, 12, 13, 20, 21, 22, 23}
\* the depth-0 entry of the radix tree a key belongs to
Entry(k) == k \div 10
EntryKeys(data, c) == {k \in DOMAIN data : Entry(k) = c}
Entries(data) == {Entry(k) : k \in DOMAIN data}

RECURSIVE RecordsBytes(_, _)
RecordsBytes(data, ks) ==
    IF ks = {} THEN 0
    ELSE LET k == Min(ks) IN RecordBytes + data[k] + RecordsBytes(data, ks \ {k})

\* the depth-0 record of an entry carries a value when the entry is one
\* key, or when the common prefix of its keys is itself a key
Valued(data, c) == Cardinality(EntryKeys(data, c)) = 1 \/ (c * 10) \in DOMAIN data
HeaderBytes(data, c) ==
    IF Valued(data, c) THEN RecordBytes + data[Min(EntryKeys(data, c))] ELSE RecordBytes
EntryBytes(data, c) ==
    RecordsBytes(data, EntryKeys(data, c)) + (IF Valued(data, c) THEN 0 ELSE RecordBytes)

RECURSIVE EntriesBytes(_, _)
EntriesBytes(data, cs) ==
    IF cs = {} THEN 0
    ELSE LET c == Min(cs) IN EntryBytes(data, c) + EntriesBytes(data, cs \ {c})
FileBytes(data) == EntriesBytes(data, Entries(data))

KeysOf(data, cs) == {k \in DOMAIN data : Entry(k) \in cs}

\* the encoding that never starts a new file
SliceNever(data, rest, cur, text) == <<data>>

\* encode the entries in key order; a depth-0 record that would take the
\* text over the cap starts a new file, unless the file is still empty;
\* the records below an entry follow it into the same file
RECURSIVE Slice(_, _, _, _)
Slice(data, rest, cur, text) ==
    IF rest = {} THEN <<Restrict(data, KeysOf(data, cur))>>
    ELSE LET c == Min(rest)
         IN  IF cur # {} /\ text + HeaderBytes(data, c) > DiskSize
             THEN <<Restrict(data, KeysOf(data, cur))>> \o Slice(data, rest, {}, 0)
             ELSE Slice(data, rest \ {c}, cur \cup {c}, text + EntryBytes(data, c))

\* a file is named by its smallest key, the first file by "!" (0 here)
Named(name, slices) ==
    [i \in 1..Len(slices) |->
        [name |-> IF i = 1 THEN name ELSE Min(DOMAIN slices[i]), data |-> slices[i]]]

\* the keys of the batch that fall to file i: its name <= key < next name
Falls(files, i, batch) ==
    {k \in DOMAIN batch : /\ files[i].name <= k
                          /\ i < Len(files) => k < files[i + 1].name}

Merged(data, batch, ks) ==
    [k \in (DOMAIN data) \cup ks |-> IF k \in ks THEN batch[k] ELSE data[k]]

\* a file no key of the batch falls to is kept as it is
Rewritten(file, data) ==
    Named(file.name, Slice(data, Entries(data), {}, 0))

RECURSIVE FlushFrom(_, _, _)
FlushFrom(files, i, batch) ==
    IF i > Len(files) THEN <<>>
    ELSE (IF Falls(files, i, batch) = {} THEN <<files[i]>>
          ELSE Rewritten(files[i], Merged(files[i].data, batch, Falls(files, i, batch))))
         \o FlushFrom(files, i + 1, batch)

InitDisk ==
    /\ peer = [files |-> <<[name |-> 0, data |-> EmptyFn]>>, batch |-> EmptyFn]
    /\ now = 0
    /\ net = <<>>
    /\ ops = 0
    /\ ticks = 0

\* radisk(key, value): stage the value in the batch
DiskWrite ==
    /\ ops < MaxDiskOps
    /\ \E k \in DiskKeys, v \in {SmallValue, BigValue} :
          /\ k \in DOMAIN peer.batch \/ Cardinality(DOMAIN peer.batch) < MaxBatch
          /\ peer' = [peer EXCEPT !.batch =
                        [x \in (DOMAIN peer.batch) \cup {k} |-> IF x = k THEN v ELSE peer.batch[x]]]
    /\ ops' = ops + 1
    /\ UNCHANGED <<now, net, ticks>>

\* the write timer: merge the batch into the files
DiskFlush ==
    /\ peer.batch # EmptyFn
    /\ peer' = [files |-> FlushFrom(peer.files, 1, peer.batch), batch |-> EmptyFn]
    /\ UNCHANGED <<now, net, ops, ticks>>

NextDisk == DiskWrite \/ DiskFlush

SpecDisk == InitDisk /\ [][NextDisk]_vars

\* the file is within the cap, or it is once one of its values is taken out
WithinButOne(data) ==
    \/ FileBytes(data) <= DiskSize
    \/ \E k \in DOMAIN data : FileBytes(data) - data[k] <= DiskSize

\* C32 (as stated): no file exceeds size bytes, except a file taken over
\* the cap by a single oversize value of a key that is already open.
C32_FileCap ==
    \A i \in 1..Len(peer.files) : WithinButOne(peer.files[i].data)

\* the text of the file up to and with the depth-0 record of entry c
UpToEntry(data, c) ==
    EntriesBytes(data, {d \in Entries(data) : d < c}) + HeaderBytes(data, c)

\* C32 (amended): in every file, each depth-0 record after the first ends
\* within size bytes of the start of the file; what takes a file over the
\* cap is the first entry of the file or the sub-keys of an entry, however
\* many and however small their values.
C32_CapAtEntries ==
    \A i \in 1..Len(peer.files) :
        \A c \in Entries(peer.files[i].data) :
            c # Min(Entries(peer.files[i].data)) => UpToEntry(peer.files[i].data, c) <= DiskSize

\* the directory has been sliced, and a file of two entries is over the
\* cap through the sub-keys of its last entry
C32_Witness ==
    /\ Len(peer.files) > 1
    /\ peer.batch = EmptyFn
    /\ \E i \in 1..Len(peer.files) :
          /\ Cardinality(Entries(peer.files[i].data)) = 2
          /\ FileBytes(peer.files[i].data) > DiskSize


(***************************************************************************)
(* Requested souls: wire A asks for soul i, which it neither holds nor     *)
(* listens to, and PUTs for i arrive with a past state, a state 100 ms     *)
(* ahead or a state more than a day ahead                                  *)
(***************************************************************************)
MaxPendOps == 4
MaxPendTicks == 2

InitPend == InitWith([p \in Peers |-> Idle(p)])

PendGet == DoGet("A", Lex("i", ""), FALSE, DefaultWait, MaxPendOps)
PendPut == \E st \in {1, now + 100, now + DAY + 100} :
               Recv("A", Msg(Handle("m"), "", NoGet, Put1("i", "name", st, Str("alpha")), "", ""),
                    MaxPendOps)
PendTime == Tick(DefaultWait, MaxPendTicks)

NextPend == PendGet \/ PendPut \/ Timeout \/ PendTime

SpecPend == InitPend /\ [][NextPend]_vars

\* wire.get was called for the soul and neither the graph nor the store
\* holds data of it
Awaited(S, soul) == S.gets # EmptyFn /\ ~hasSoul(S, soul)

\* the step is the arrival of a PUT
PutArrives(p) ==
    /\ peer'[p].ev # <<>>
    /\ peer'[p].ev[1].k = "recv"
    /\ ops' = ops + 1
    /\ peer'[p].gets = peer[p].gets

\* the step handed a change to HAM.mix
ReachesHam(p) == \E i \in 1..Len(peer'[p].ev) : peer'[p].ev[i].k = "mix"

\* C33: after wire.get(lex) for a soul, every inbound PUT for that soul that
\* arrives before data for it is stored passes the subscription filter and
\* reaches HAM, a PUT that follows a rejected or deferred one included.
C33_AwaitedPasses ==
    [][(Awaited(peer["A"], "i") /\ PutArrives("A")) => ReachesHam("A")]_vars


(***************************************************************************)
(* Replies: server A holds soul j; connections say HELLO and ask for j     *)
(***************************************************************************)
MaxReplyOps == 4
MaxReplyTicks == 2

InitReply ==
    InitWith([p \in Peers |->
        IF p = "A"
        THEN InitPeer(p, FALSE, "server", DefaultMaxQueueLength, DefaultMaxAge, StoredJ)
        ELSE Idle(p)])

\* the "#" of a GET names the connection it comes in on
AskId(c, n) == c \o "-" \o ToString(n)
Requester(at) == {c \in DropConns : \E n \in 1..MaxReplyOps + 1 : at = AskId(c, n)}

ReplyHello == \E c \in DropConns : \E pub \in DropPubs :
    RecvFrom("A", c, Msg(Handle("m"), "", NoGet, EmptyFn, "", pub), MaxReplyOps)
ReplyAsk == \E c \in DropConns :
    RecvFrom("A", c, Msg(AskId(c, ops + 1), "", Lex("j", "name"), EmptyFn, "", ""), MaxReplyOps)
ReplyTime == Tick(Pacing, MaxReplyTicks)

NextReply == ReplyHello \/ ReplyAsk \/ Timeout \/ ReplyTime

SpecReply == InitReply /\ [][NextReply]_vars

\* the connections a transmission is written to
WrittenTo(S, to) ==
    IF "broadcast" \in to THEN DropConns
    ELSE {S.via[id] : id \in to \cap DOMAIN S.via}

\* C34: the reply to an inbound GET is sent to the peer that issued the GET.
C34_ReplyToRequester ==
    \A p \in Peers : \A i \in 1..Len(peer[p].ev) :
        (peer[p].ev[i].k = "tx" /\ peer[p].ev[i].msg.at # "")
            => Requester(peer[p].ev[i].msg.at) \subseteq WrittenTo(peer[p], peer[p].ev[i].to)


(***************************************************************************)
(* Cold souls: the store of A holds soul j at state 2, the graph does not; *)
(* writes to j at states 1 and 3 are put locally and received              *)
(***************************************************************************)
MaxColdOps == 3
MaxColdTicks == 3

StoredCold == ("j" :> Node(("name" :> 2), ("name" :> Str("beta")), EmptyFn))

InitCold == InitWith([p \in Peers |->
               IF p = "A"
               THEN InitPeer(p, FALSE, "local", DefaultMaxQueueLength, DefaultMaxAge, StoredCold)
               ELSE Idle(p)])

ColdWrites == {Put1("j", "name", 1, Str("alpha")), Put1("j", "name", 3, Str("alpha"))}

ColdLocalPut == \E w \in ColdWrites : DoPut("A", w, MaxColdOps)
ColdRemotePut == \E w \in ColdWrites :
                     Recv("A", Msg(Handle("m"), "", NoGet, w, "", ""), MaxColdOps)
ColdTime == Tick(DefaultWait, MaxColdTicks)

NextCold == ColdLocalPut \/ ColdRemotePut \/ Timeout \/ ColdTime

SpecCold == InitCold /\ [][NextCold]_vars

\* C35: for a soul persisted in the Store but absent from the graph, a PUT
\* carrying an older field state does not overwrite the persisted value: the
\* store never holds the field at a state below the one it held.
C35_ColdKept ==
    [][\A p \in Peers : \A soul \in DOMAIN peer[p].store :
          \A f \in DOMAIN peer[p].store[soul].st :
              /\ soul \in DOMAIN peer'[p].store
              /\ f \in DOMAIN peer'[p].store[soul].st
              /\ peer'[p].store[soul].st[f] >= peer[p].store[soul].st[f]]_vars


(***************************************************************************)
(* wire.put and its callback: wire A, whose outbound queue takes one       *)
(* message, puts and asks; its requests are answered or time out           *)
(***************************************************************************)
MaxOnceOps == 4
MaxOnceTicks == 3

InitOnce == InitWith([p \in Peers |->
               IF p = "A" THEN InitPeer(p, FALSE, "queue", SmallQueue, DefaultMaxAge, EmptyFn)
               ELSE Idle(p)])

OncePut == \E w \in {Put1("k", "name", 1, Str("alpha")), Put1("k", "name", now + DAY + 100, Str("alpha"))} :
               DoPut("A", w, MaxOnceOps)
OnceGet == DoGet("A", Lex("j", ""), FALSE, DefaultWait, MaxOnceOps)
\* a remote peer answers a pending request, with nothing
OnceAck == \E at \in DOMAIN peer["A"].queue :
               Recv("A", Msg(Handle("m"), at, NoGet, EmptyFn, "", ""), MaxOnceOps)
OnceTime == \E d \in {Pacing, DefaultWait} : Tick(d, MaxOnceTicks)

NextOnce == OncePut \/ OnceGet \/ OnceAck \/ Timeout \/ OnceTime

SpecOnce == InitOnce /\ [][NextOnce]_vars

\* C36: for each wire.put with a callback, the callback is invoked exactly
\* once, whatever the outcome: at no time has it been invoked twice.
C36_PutCallbackOnce ==
    \A p \in Peers : \A h \in DOMAIN peer[p].puts : Len(Log(peer[p], h)) <= 1


\* no listener is registered for the soul, the graph and the store do not
\* hold it and no request or relation refers to it
Unfollowed(S, soul) ==
    /\ soul \notin DOMAIN S.listen \/ S.listen[soul] = <<>>
    /\ ~hasSoul(S, soul)
    /\ soul \notin S.pend

\* C37: once every listener of a soul has been removed with off, with or
\* without a callback, the soul no longer counts as subscribed: an inbound
\* PUT for it, the soul being in neither the graph, the Store nor
\* pendingReferences, is not merged and not persisted.
C37_OffUnsubscribes ==
    [][\A soul \in {"k"} :
          (Unfollowed(peer["A"], soul) /\ PutArrives("A"))
              => /\ soul \notin DOMAIN peer'["A"].graph
                 /\ soul \notin DOMAIN peer'["A"].store
                 /\ \A tid \in DOMAIN peer'["A"].tasks :
                       soul \notin DOMAIN peer'["A"].tasks[tid].up.now]_vars


\* the peers the buckets hold
Bucketed(S) == UNION {{S.buckets[idx][i] : i \in DOMAIN S.buckets[idx]} : idx \in DOMAIN S.buckets}

\* C38: under any interleaving of concurrent addPeer and removePeer calls,
\* which suspend while hashing, the peers in the buckets are the peers of
\* peerMap and no peer id appears twice in a bucket.
C38_TableConsistent ==
    \A p \in Peers :
        /\ Bucketed(peer[p]) = peer[p].ft
        /\ \A idx \in DOMAIN peer[p].buckets :
              \A i, j \in DOMAIN peer[p].buckets[idx] :
                  peer[p].buckets[idx][i] = peer[p].buckets[idx][j] => i = j


\* ---------------------------------------------------------------------
\* WebSocketTransport: connect, close events, reconnect timers, disconnect
\* (transports/websocket.ts)
\* ---------------------------------------------------------------------
MaxSockOps == 3
MaxSocks == 4

\* options.maxReconnectAttempts || 5, options.reconnectDelay || 1000
maxReconnectAttempts == 5
reconnectDelay == 1000
\* the longest delay of a reconnect timer
MaxReconnectDelay == 30000

\* the transport after construction; socks are the WebSocket objects made
\* so far, ws the index of the current one or 0 for null
InitSocket ==
    /\ peer = [socks |-> <<>>, ws |-> 0, reconnectAttempts |-> 0, shouldReconnect |-> TRUE,
               timers |-> {}, ntimer |-> 0,
               \* history, kept for the properties only
               down |-> FALSE,        \* disconnect() has been called
               dials |-> <<>>,        \* per socket: who called connect, and after disconnect?
               lateClose |-> FALSE,   \* a close event has fired after disconnect()
               lateTimer |-> FALSE]   \* a reconnect timer has fired after disconnect()
    /\ now = 0
    /\ net = <<>>
    /\ ops = 0
    /\ ticks = 0

\* connect(address): a new WebSocket becomes the current one
connect(S, by) ==
    [S EXCEPT !.socks = Append(@, "connecting"),
              !.ws = Len(S.socks) + 1,
              !.dials = Append(@, [by |-> by, down |-> S.down])]

\* ws.onopen
onopen(S, i) == [S EXCEPT !.socks[i] = "open", !.reconnectAttempts = 0]

\* ws.onclose: a reconnect timer is set while reconnection is wanted and
\* attempts are left
onclose(S, i, t) ==
    LET S1 == [S EXCEPT !.socks[i] = "closed", !.lateClose = @ \/ S.down]
    IN  IF S.shouldReconnect /\ S.reconnectAttempts < maxReconnectAttempts
        THEN [S1 EXCEPT !.reconnectAttempts = @ + 1,
                        !.ntimer = @ + 1,
                        !.timers = @ \cup
                            {[n |-> S.ntimer + 1,
                              due |-> t + Min({reconnectDelay * (2 ^ S.reconnectAttempts),
                                               MaxReconnectDelay})]}]
        ELSE S1

\* disconnect(): ws.close() on the current socket, whose close event follows
disconnect(S) ==
    [S EXCEPT !.shouldReconnect = FALSE,
              !.down = TRUE,
              !.ws = 0,
              !.socks = IF S.ws = 0 \/ S.socks[S.ws] = "closed" THEN @
                        ELSE [@ EXCEPT ![S.ws] = "closing"]]

\* a reconnect timer that connects whatever disconnect() has said
reconnectAlways(S, x) ==
    connect([S EXCEPT !.timers = @ \ {x}, !.lateTimer = @ \/ S.down], "timer")

\* the callback of a reconnect timer
reconnect(S, x) ==
    IF S.shouldReconnect
    THEN connect([S EXCEPT !.timers = @ \ {x}, !.lateTimer = @ \/ S.down], "timer")
    ELSE [S EXCEPT !.timers = @ \ {x}, !.lateTimer = @ \/ S.down]

SockConnect ==
    /\ ops < MaxSockOps
    /\ Len(peer.socks) < MaxSocks
    /\ peer' = connect(peer, "user")
    /\ ops' = ops + 1
    /\ UNCHANGED <<now, net, ticks>>

SockDisconnect ==
    /\ ops < MaxSockOps
    /\ peer' = disconnect(peer)
    /\ ops' = ops + 1
    /\ UNCHANGED <<now, net, ticks>>

\* the connection of socket i is established
SockOpen == \E i \in DOMAIN peer.socks :
    /\ peer.socks[i] = "connecting"
    /\ peer' = onopen(peer, i)
    /\ UNCHANGED <<now, net, ops, ticks>>

\* socket i fails to connect, loses its connection or completes its close
SockClose == \E i \in DOMAIN peer.socks :
    /\ peer.socks[i] # "closed"
    /\ peer' = onclose(peer, i, now)
    /\ UNCHANGED <<now, net, ops, ticks>>

\* the earliest reconnect timer fires
SockTimer == \E x \in peer.timers :
    /\ \A y \in peer.timers : x.due <= y.due
    /\ peer.shouldReconnect => Len(peer.socks) < MaxSocks
    /\ now' = Max({now, x.due})
    /\ peer' = reconnect(peer, x)
    /\ UNCHANGED <<net, ops, ticks>>

NextSocket == SockConnect \/ SockDisconnect \/ SockOpen \/ SockClose \/ SockTimer

SpecSocket == InitSocket /\ [][NextSocket]_vars

\* C39: after disconnect() on the WebSocket transport no reconnection
\* attempt is ever started, even if a close event or a scheduled reconnect
\* timer fires afterwards: no socket was made by a timer after disconnect().
C39_NoReconnectAfterDisconnect ==
    \A i \in DOMAIN peer.dials : ~(peer.dials[i].by = "timer" /\ peer.dials[i].down)

\* after disconnect() a close event and a reconnect timer have both fired,
\* and a timer had reconnected before
C39_Witness ==
    /\ peer.down
    /\ peer.lateClose
    /\ peer.lateTimer
    /\ \E i \in DOMAIN peer.dials : peer.dials[i].by = "timer"


\* ---------------------------------------------------------------------
\* WebRTC: two peers negotiate a connection with each other (webrtc.ts);
\* a signaling channel carries their descriptions
\* ---------------------------------------------------------------------
MaxRtcOps == 3

\* no entry in the peers map
NoRtcPeer ==
    [has |-> FALSE, polite |-> FALSE, makingOffer |-> FALSE, ignoreOffer |-> FALSE,
     isSettingRemoteAnswerPending |-> FALSE,
     signalingState |-> "stable",
     needed |-> FALSE,          \* negotiationneeded is due
     todo |-> <<>>,             \* descriptions whose setRemoteDescription is awaited
     \* history, kept for the properties only
     collisions |-> 0,          \* offers that arrived while this peer was not ready
     ignored |-> 0,             \* offers this peer ignored
     answered |-> 0]            \* offers this peer answered

InitRtc ==
    /\ peer = [p \in Peers |-> NoRtcPeer]
    /\ now = 0
    /\ net = {}
    /\ ops = 0
    /\ ticks = 0

\* createPeerConnection(remotePeerId, polite)
createPeerConnection(S, polite) ==
    [S EXCEPT !.has = TRUE, !.polite = polite, !.makingOffer = FALSE, !.ignoreOffer = FALSE,
              !.isSettingRemoteAnswerPending = FALSE, !.signalingState = "stable",
              !.needed = FALSE, !.todo = <<>>]

\* connect(remotePeerId, polite): the data channel makes negotiation needed
rtcConnect(S, polite) ==
    IF S.has THEN S ELSE [createPeerConnection(S, polite) EXCEPT !.needed = TRUE]

\* handleDescription(description, remotePeerId) up to its first await
handleDescription(S, type) ==
    LET P == IF S.has THEN S ELSE createPeerConnection(S, TRUE)
        readyForOffer == /\ ~P.makingOffer
                         /\ P.signalingState = "stable" \/ P.isSettingRemoteAnswerPending
        offerCollision == type = "offer" /\ ~readyForOffer
        ignoreOffer == ~P.polite /\ offerCollision
        P1 == [P EXCEPT !.ignoreOffer = ignoreOffer,
                        !.collisions = @ + (IF offerCollision THEN 1 ELSE 0)]
    IN  IF ignoreOffer THEN [P1 EXCEPT !.ignored = @ + 1]
        ELSE [P1 EXCEPT !.isSettingRemoteAnswerPending = (type = "answer"),
                        !.todo = Append(@, type)]

RtcConnect == \E p \in Peers : \E polite \in BOOLEAN :
    /\ ops < MaxRtcOps
    /\ ~peer[p].has
    /\ peer' = [peer EXCEPT ![p] = rtcConnect(@, polite)]
    /\ ops' = ops + 1
    /\ UNCHANGED <<now, net, ticks>>

\* pc.onnegotiationneeded up to its await of setLocalDescription()
RtcNegotiate == \E p \in Peers :
    /\ peer[p].needed
    /\ peer' = [peer EXCEPT ![p].needed = FALSE, ![p].makingOffer = TRUE]
    /\ UNCHANGED <<now, net, ops, ticks>>

\* setLocalDescription() has resolved: the description goes out as an offer
\* signal; in have-remote-offer the description it made is an answer
RtcOffer == \E p \in Peers :
    /\ peer[p].makingOffer
    /\ peer' = [peer EXCEPT ![p].makingOffer = FALSE,
                            ![p].signalingState =
                                IF @ = "have-remote-offer" THEN "stable" ELSE "have-local-offer"]
    /\ net' = net \cup {[to |-> Other(p),
                         type |-> IF peer[p].signalingState = "have-remote-offer"
                                  THEN "answer" ELSE "offer"]}
    /\ UNCHANGED <<now, ops, ticks>>

\* the signaling channel delivers a description
RtcDeliver == \E m \in net :
    /\ peer' = [peer EXCEPT ![m.to] = handleDescription(@, m.type)]
    /\ net' = net \ {m}
    /\ UNCHANGED <<now, ops, ticks>>

\* setRemoteDescription(description) has resolved, after the operations the
\* connection had queued before it; an offer is answered, an answer that
\* finds no local offer is an error
RtcApply == \E p \in Peers :
    /\ peer[p].todo # <<>>
    /\ ~peer[p].makingOffer
    /\ LET type == Head(peer[p].todo)
           S == [peer[p] EXCEPT !.todo = Tail(@)]
       IN  IF type = "offer"
           THEN /\ peer' = [peer EXCEPT ![p] =
                              [S EXCEPT !.isSettingRemoteAnswerPending = FALSE,
                                        !.signalingState = "stable",
                                        !.answered = @ + 1]]
                /\ net' = net \cup {[to |-> Other(p), type |-> "answer"]}
           ELSE /\ peer' = [peer EXCEPT ![p] =
                              IF S.signalingState = "have-local-offer"
                              THEN [S EXCEPT !.isSettingRemoteAnswerPending = FALSE,
                                             !.signalingState = "stable"]
                              ELSE S]
                /\ net' = net
    /\ UNCHANGED <<now, ops, ticks>>

NextRtc == RtcConnect \/ RtcNegotiate \/ RtcOffer \/ RtcDeliver \/ RtcApply

SpecRtc == InitRtc /\ [][NextRtc]_vars

\* C40: when two WebRTC peers send offers to each other at the same time,
\* exactly one of the two colliding offers is ignored and the other is
\* answered: once both peers have met the other's offer while their own
\* was out and have dealt with it, one offer was ignored and one answered.
C40_OneIgnoredOneAnswered ==
    (/\ \A p \in Peers : peer[p].collisions > 0 /\ peer[p].todo = <<>>)
        => /\ peer["A"].ignored + peer["B"].ignored = 1
           /\ peer["A"].answered + peer["B"].answered = 1

====
